---- MODULE Spec2Model ----
(***************************************************************************)
(* rewards-goblin: the Ledger Client (sendAosDryRun, sendAosMessage), the  *)
(* AchievementsService startup, ledger-state cache and award protocol, and *)
(* the RewardsProcessor worker on the rewards-events queue, as executions  *)
(* interleaving at their await points.                                     *)
(***************************************************************************)
EXTENDS Integers, Sequences, FiniteSets, TLC

(* ------------------------------ bounds -------------------------------- *)
MaxCalls == 3        \* calls started in one run, by all job slots together
MaxTime == 2         \* latest reading of the clock
MaxTtl == 1          \* largest configured cache TTL, in clock readings
MaxRetriesArg == 3   \* largest `retries` argument a direct client call passes
ClientFaults == 3    \* remote failures in one run of direct client calls
CacheFaults == 1     \* remote failures in one run of direct cache calls
AwardFaults == 1     \* remote failures in one run of awards
JobFaults == 1       \* remote failures in one run of the worker
BootFaults == 1      \* remote failures in one run from startup on
HexLen == 2          \* hex digits of an EVM address (40 in the format)

Procs == {"j1", "j2"}
Starter == "j1"      \* the slot onModuleInit runs in
JobNames == {"arns-search", "image-search", "audio-search", "video-search", "text-search"}
\* wallet addresses are texts, written as sequences of characters
LowerAb == <<"0", "x", "a", "b">>
ChecksumAb == <<"0", "x", "A", "b">>
InvalidWalletAddress ==
  <<"i", "n", "v", "a", "l", "i", "d", "-", "w", "a", "l", "l", "e", "t", "-",
    "a", "d", "d", "r", "e", "s", "s">>
RawWallets == {LowerAb, ChecksumAb, InvalidWalletAddress}
Wallets == {<<"w", "1">>}
AchievementIds == {"a1", "a2"}
Names == {"Wuzzy Searcher", "Wuzzy ArNS Searcher", "Unlisted"}

(* --------------------------- program constants ------------------------ *)
DefaultRetries == 3
JobAttempts == 3          \* defaultJobOptions.attempts
WorkerConcurrency == 1    \* the processor sets no concurrency: one job at a time

ACHIEVEMENT_WUZZY_SEARCHER == "Wuzzy Searcher"
ACHIEVEMENT_WUZZY_VIDEO_SEARCHER == "Wuzzy Video Searcher"
ACHIEVEMENT_WUZZY_IMAGE_SEARCHER == "Wuzzy Image Searcher"
ACHIEVEMENT_WUZZY_ARNS_SEARCHER == "Wuzzy ArNS Searcher"
ACHIEVEMENT_WUZZY_AUDIO_SEARCHER == "Wuzzy Audio Searcher"
REQUIRED_ACHIEVEMENTS ==
  <<ACHIEVEMENT_WUZZY_SEARCHER, ACHIEVEMENT_WUZZY_VIDEO_SEARCHER,
    ACHIEVEMENT_WUZZY_IMAGE_SEARCHER, ACHIEVEMENT_WUZZY_ARNS_SEARCHER,
    ACHIEVEMENT_WUZZY_AUDIO_SEARCHER>>
AwardRole == "Award-Cheese-Mint"

(* Error messages, as character sequences so that includes('500') is the    *)
(* substring test the code performs.                                       *)
Msg500 == <<"5", "0", "0">>
MsgGateway500 == <<"M", "U", " ", "5", "0", "0">>
Msg50x == <<"5", "0", "x", "0">>
RemoteErrors == {Msg500, MsgGateway500, Msg50x}
UnknownError == <<"U", "n", "k", "n", "o", "w", "n">>
InvalidFormat == <<"I", "n", "v", "a", "l", "i", "d">>
NoError == <<>>
WalletValidationFailed ==
  <<"W", "a", "l", "l", "e", "t", " ", "v", "a", "l", "i", "d", "a", "t", "i", "o",
    "n", " ", "f", "a", "i", "l", "e", "d">>
MissingNormalized ==
  <<"V", "a", "l", "i", "d", "a", "t", "i", "o", "n", " ", "s", "u", "c", "c", "e",
    "e", "d", "e", "d", " ", "b", "u", "t", " ", "m", "i", "s", "s", "i", "n", "g",
    " ", "n", "o", "r", "m", "a", "l", "i", "z", "e", "d", " ", "d", "a", "t", "a">>
JwkPathRequired ==
  <<"A", "O", "_", "W", "A", "L", "L", "E", "T", "_", "J", "W", "K", "_", "P", "A",
    "T", "H", " ", "i", "s", " ", "r", "e", "q", "u", "i", "r", "e", "d">>
ProcessIdRequired ==
  <<"A", "O", "_", "C", "H", "E", "E", "S", "E", "_", "M", "I", "N", "T", "_", "P",
    "R", "O", "C", "E", "S", "S", "_", "I", "D", " ", "i", "s", " ", "r", "e", "q",
    "u", "i", "r", "e", "d">>
JwkUnreadable ==
  <<"E", "N", "O", "E", "N", "T">>
NoAclFound ==
  <<"N", "o", " ", "A", "C", "L", " ", "f", "o", "u", "n", "d", " ", "i", "n", " ",
    "p", "r", "o", "c", "e", "s", "s", " ", "i", "n", "f", "o">>
NotConfigured ==
  <<"A", "w", "a", "r", "d", "-", "C", "h", "e", "e", "s", "e", "-", "M", "i", "n",
    "t", " ", "p", "e", "r", "m", "i", "s", "s", "i", "o", "n", " ", "n", "o", "t",
    " ", "c", "o", "n", "f", "i", "g", "u", "r", "e", "d", " ", "i", "n", " ", "A",
    "C", "L">>
NoPermission ==
  <<"W", "a", "l", "l", "e", "t", " ", "d", "o", "e", "s", " ", "n", "o", "t", " ",
    "h", "a", "v", "e", " ", "A", "w", "a", "r", "d", "-", "C", "h", "e", "e", "s",
    "e", "-", "M", "i", "n", "t", " ", "p", "e", "r", "m", "i", "s", "s", "i", "o",
    "n", " ", "i", "n", " ", "A", "O", " ", "p", "r", "o", "c", "e", "s", "s">>
NoCatalogFound ==
  <<"N", "o", " ", "c", "h", "e", "e", "s", "e", "_", "m", "i", "n", "t", "s", "_",
    "b", "y", "_", "i", "d", " ", "f", "o", "u", "n", "d", " ", "i", "n", " ", "p",
    "r", "o", "c", "e", "s", "s", " ", "i", "n", "f", "o">>
RequiredNotFound ==
  <<"R", "e", "q", "u", "i", "r", "e", "d", " ", "a", "c", "h", "i", "e", "v", "e",
    "m", "e", "n", "t", "s", " ", "n", "o", "t", " ", "f", "o", "u", "n", "d", ":",
    " ">>
UnknownJobType ==
  <<"U", "n", "k", "n", "o", "w", "n", " ", "j", "o", "b", " ", "t", "y", "p", "e",
    ":", " ">>

VARIABLES
  now,                  \* Date.now(), as last read
  faultsLeft,           \* remote failures the run may still see
  messages,             \* the remote ledger: the awards its accepted messages made
  messageCount,         \* award messages the ledger accepted so far
  stateCache,           \* {} (null) or {snapshot}
  stateCacheTimestamp,
  stateCacheTtlMs,
  achievementIdsByName,
  pc, task, retries, attempts, lastError, caught, inflight, messageId, callNow,
  outcome,              \* how the job slot's last call ended
  trace, sleeps,        \* the current client call: attempt outcomes, backoff sleeps
  calls,                \* calls the job slot has started
  sent,                 \* award messages of the current call the ledger accepted
  sends,                \* sendAosMessage calls of the current call
  queried,              \* the current call called sendAosDryRun
  obtained,             \* the ledger state the current call got from getProcessState
  prev,                 \* the job slot's previous call
  pendingNext,          \* awards sent successfully that no later read has started after
  mustSee,              \* pendingNext when the current call started its read
  lastCallOf,           \* per job slot, its latest direct getProcessState call
  jobs,                 \* the rewards-events queue: per job slot, the job it carries
  boot,                 \* how far the service's startup has come
  thisWalletAddress,    \* the service's own address, derived from its key
  ledger,               \* the remote ledger's ACL and achievement catalog
  config,               \* what the environment configures for the service
  startupError          \* the error onModuleInit raised

vars == <<now, faultsLeft, messages, messageCount, stateCache, stateCacheTimestamp,
          stateCacheTtlMs, achievementIdsByName, pc, task, retries, attempts, lastError,
          caught, inflight, messageId, callNow, outcome, trace, sleeps, calls, sent,
          sends, queried, obtained, prev, pendingNext, mustSee, lastCallOf, jobs, boot,
          thisWalletAddress, ledger, config, startupError>>

cacheVars == <<stateCache, stateCacheTimestamp>>
configVars == <<stateCacheTtlMs, achievementIdsByName>>
startVars == <<boot, thisWalletAddress, ledger, config, startupError>>
appVars == <<jobs, startVars>>

\* the process has not exited
Alive == boot # "exited"
\* what the steps inside a call leave alone
callVars == <<task, retries, calls, prev, mustSee>>

None == {}
Some(x) == {x}
The(s) == CHOOSE x \in s : TRUE
Upd(f, p, v) == [f EXCEPT ![p] = v]

(* ------------------------- the remote ledger -------------------------- *)
(* cheese_mints_by_address of the ledger: address -> ids awarded to it.    *)
AwardsByAddress(msgs) ==
  [w \in {m.wallet : m \in msgs} |-> {m.id : m \in {n \in msgs : n.wallet = w}}]

\* CheeseMintCollectionState, as the ledger reports it
LedgerState(msgs) ==
  [acl |-> ledger.acl,
   cheese_mints_by_id |-> ledger.cheese_mints_by_id,
   cheese_mints_by_address |-> AwardsByAddress(msgs)]

\* a ledger whose catalog lists the five achievements and whose ACL lets `address` award
FullCatalog ==
  [id \in {"a1", "a2", "a3", "a4", "a5"} |->
     [name |-> CASE id = "a1" -> ACHIEVEMENT_WUZZY_SEARCHER
                 [] id = "a2" -> ACHIEVEMENT_WUZZY_ARNS_SEARCHER
                 [] id = "a3" -> ACHIEVEMENT_WUZZY_IMAGE_SEARCHER
                 [] id = "a4" -> ACHIEVEMENT_WUZZY_AUDIO_SEARCHER
                 [] id = "a5" -> ACHIEVEMENT_WUZZY_VIDEO_SEARCHER]]
Acl(permissions) == Some([roles |-> Some([r \in {AwardRole} |-> permissions])])
ReadyLedger(address) ==
  [acl |-> Acl([a \in {address} |-> TRUE]), cheese_mints_by_id |-> Some(FullCatalog)]

EmptyState == LedgerState({})

(* What a View-State dry run can answer: the state as the first message's  *)
(* JSON data, or one of the shapes parseProcessInfo rejects.               *)
GoodResult(msgs) ==
  [Messages |-> Some(<<[Data |-> Some([wellFormed |-> TRUE, value |-> LedgerState(msgs)])]>>)]
NoMessagesResult == [Messages |-> None]
EmptyMessagesResult == [Messages |-> Some(<<>>)]
NoDataResult == [Messages |-> Some(<<[Data |-> None]>>)]
MalformedResult ==
  [Messages |-> Some(<<[Data |-> Some([wellFormed |-> FALSE, value |-> EmptyState])]>>)]

BadResults == {NoMessagesResult, EmptyMessagesResult, NoDataResult, MalformedResult}

RemoteOk(v) == [ok |-> TRUE, value |-> Some(v), error |-> NoError]
RemoteErr(e) == [ok |-> FALSE, value |-> None, error |-> e]
NoOutcome == [ok |-> FALSE, value |-> None, error |-> NoError]

(* ----------------------------- pure helpers --------------------------- *)
\* err.message.includes('500')
Includes500(m) ==
  \E i \in 1..(Len(m) - 2) : m[i] = "5" /\ m[i + 1] = "0" /\ m[i + 2] = "0"

\* 2 ** attempts * 2000
BackoffAfterIncrement(a) == (2 ^ (a + 1)) * 2000

Backoff(a) == (2 ^ a) * 2000

(* The part of the state one step of job slot p reads and writes; `wrote`  *)
(* notes what the step did to the cache.                                   *)
Cur(p) ==
  [pc |-> pc[p], outcome |-> outcome[p], attempts |-> attempts[p],
   lastError |-> lastError[p], trace |-> trace[p], sleeps |-> sleeps[p],
   callNow |-> callNow[p], sends |-> sends[p], queried |-> queried[p],
   obtained |-> obtained[p], wrote |-> "no",
   stateCache |-> stateCache, stateCacheTimestamp |-> stateCacheTimestamp]

Apply(p, s) ==
  /\ pc' = Upd(pc, p, s.pc)
  /\ outcome' = Upd(outcome, p, s.outcome)
  /\ attempts' = Upd(attempts, p, s.attempts)
  /\ lastError' = Upd(lastError, p, s.lastError)
  /\ trace' = Upd(trace, p, s.trace)
  /\ sleeps' = Upd(sleeps, p, s.sleeps)
  /\ callNow' = Upd(callNow, p, s.callNow)
  /\ sends' = Upd(sends, p, s.sends)
  /\ queried' = Upd(queried, p, s.queried)
  /\ obtained' = Upd(obtained, p, s.obtained)
  /\ stateCache' = s.stateCache
  /\ stateCacheTimestamp' = s.stateCacheTimestamp

\* the call returns v (an option: {} for void) to the job
Returned(s, v) == [s EXCEPT !.pc = "returned", !.outcome = [error |-> NoError, value |-> v]]
\* the call raises e to the job
Threw(s, e) == [s EXCEPT !.pc = "failed", !.outcome = [error |-> e, value |-> None]]

(* --------------------------- the retry loop --------------------------- *)
\* a Ledger Client call made by the service is over: its locals are gone
Pop(s) == [s EXCEPT !.attempts = 0, !.lastError = NoError, !.trace = <<>>, !.sleeps = <<>>]

\* sendAosDryRun or sendAosMessage raises e; getProcessState, hasAchievement and
\* awardAchievement (whose catch block rethrows) let it pass to the job
ClientThrewSwallowed(t, s, e) ==
  IF t.kind \in {"dryrun", "message"} THEN Threw(s, e) ELSE Returned(Pop(s), None)

ClientThrewInvalidating(t, s, e) ==
  IF t.kind \in {"dryrun", "message"} THEN Threw(s, e)
  ELSE Threw(Pop([s EXCEPT !.stateCache = None, !.stateCacheTimestamp = 0,
                           !.wrote = "invalidate"]), e)

ClientThrew(t, s, e) ==
  IF t.kind \in {"dryrun", "message"} THEN Threw(s, e) ELSE Threw(Pop(s), e)

\* the loop test `attempts < retries` and, past the loop,
\* `if (lastError) throw lastError; throw new Error('Unknown error occurred')`
LoopTestNoFinalSleep(t, s, r, requestPc) ==
  IF s.attempts < r THEN [s EXCEPT !.pc = requestPc]
  ELSE IF s.lastError # NoError
  THEN ClientThrew(t, [s EXCEPT !.sleeps = SubSeq(@, 1, Len(@) - 1)], s.lastError)
  ELSE ClientThrew(t, s, UnknownError)

LoopTest(t, s, r, requestPc) ==
  IF s.attempts < r THEN [s EXCEPT !.pc = requestPc]
  ELSE IF s.lastError # NoError THEN ClientThrew(t, s, s.lastError)
  ELSE ClientThrew(t, s, UnknownError)

\* attempts = 0, lastError undefined, then the loop
ClientEntry(t, s, r, requestPc) ==
  LoopTest(t, [s EXCEPT !.attempts = 0, !.lastError = NoError, !.trace = <<>>,
                        !.sleeps = <<>>], r, requestPc)

SendAosDryRun(t, s, r) == ClientEntry(t, [s EXCEPT !.queried = TRUE], r, "dry_eval")
SendAosMessage(t, s, r) == ClientEntry(t, [s EXCEPT !.sends = @ + 1], r, "msg_submit")

\* the catch block: a server error is slept on and retried, any other rethrown
CatchRetryAll(t, s, err, sleepPc) == [s EXCEPT !.pc = sleepPc]

Catch(t, s, err, sleepPc) ==
  IF Includes500(err) THEN [s EXCEPT !.pc = sleepPc] ELSE ClientThrew(t, s, err)

\* the timer fires: attempts++, lastError = err, back to the loop test
AfterSleepKeepFirst(t, s, err, r, requestPc) ==
  LoopTest(t, [s EXCEPT !.sleeps = Append(@, Backoff(s.attempts)),
                        !.attempts = @ + 1,
                        !.lastError = IF @ = NoError THEN err ELSE @], r, requestPc)

AfterSleepNoCount(t, s, err, r, requestPc) ==
  LoopTest(t, [s EXCEPT !.sleeps = Append(@, Backoff(s.attempts)),
                        !.lastError = err], r, requestPc)

AfterSleep(t, s, err, r, requestPc) ==
  LoopTest(t, [s EXCEPT !.sleeps = Append(@, Backoff(s.attempts)),
                        !.attempts = @ + 1,
                        !.lastError = err], r, requestPc)

(* ------------------------ AchievementsService ------------------------- *)
\* this.stateCache = null; this.stateCacheTimestamp = 0
InvalidateStateCacheKeepStamp(s) == [s EXCEPT !.stateCache = None, !.wrote = "invalidate"]

InvalidateStateCache(s) ==
  [s EXCEPT !.stateCache = None, !.stateCacheTimestamp = 0, !.wrote = "invalidate"]

\* parseProcessInfo: the three checks, then JSON.parse of the first message's data
ParseOk(result) ==
  /\ result.Messages # None
  /\ Len(The(result.Messages)) # 0
  /\ The(result.Messages)[1].Data # None
  /\ The(The(result.Messages)[1].Data).wellFormed

ParseProcessInfo(result) == The(The(result.Messages)[1].Data).value

\* hasAchievement, on the state getProcessState returned
HasAchievementWrongLevel(state, walletAddress, achievementId) ==
  <<achievementId>> \in DOMAIN state.cheese_mints_by_address

HasAchievement(state, walletAddress, achievementId) ==
  IF walletAddress \notin DOMAIN state.cheese_mints_by_address THEN FALSE
  ELSE achievementId \in state.cheese_mints_by_address[walletAddress]

\* getAchievementId: the id, or undefined
GetAchievementIdOrName(achievementName) ==
  IF achievementName \in DOMAIN achievementIdsByName
  THEN Some(achievementIdsByName[achievementName]) ELSE Some(achievementName)

GetAchievementId(achievementName) ==
  IF achievementName \in DOMAIN achievementIdsByName
  THEN Some(achievementIdsByName[achievementName]) ELSE None

\* the cache test of getProcessState
CacheValidInclusive(forceRefresh, cache, timestamp, ttl, t) ==
  ~forceRefresh /\ cache # None /\ (t - timestamp) <= ttl

CacheValid(forceRefresh, cache, timestamp, ttl, t) ==
  ~forceRefresh /\ cache # None /\ (t - timestamp) < ttl

\* awardAchievement after `await this.hasAchievement(...)`
AfterHasAchievement(t, s, hasAchieved) ==
  IF hasAchieved THEN Returned(s, None) ELSE SendAosMessage(t, s, DefaultRetries)

\* getProcessState returned info to its caller
GotState(t, s, info) ==
  IF t.kind = "read" THEN Returned(s, Some(info))
  ELSE AfterHasAchievement(t, [s EXCEPT !.obtained = Some(info)],
                           HasAchievement(info, t.wallet, t.id))

\* getProcessState after `await sendAosDryRun(...)`: parse, update the cache, return
GetProcessStateFetchedClear(t, s, result) ==
  IF ~ParseOk(result) THEN Threw(InvalidateStateCache(s), InvalidFormat)
  ELSE LET info == ParseProcessInfo(result)
       IN GotState(t, [s EXCEPT !.stateCache = Some(info),
                                !.stateCacheTimestamp = s.callNow,
                                !.wrote = "install"], info)

GetProcessStateFetchedUnlessEmptied(t, s, result) ==
  IF ~ParseOk(result) THEN Threw(s, InvalidFormat)
  ELSE LET info == ParseProcessInfo(result)
       IN IF s.stateCache = None /\ s.stateCacheTimestamp = 0
          THEN GotState(t, s, info)
          ELSE GotState(t, [s EXCEPT !.stateCache = Some(info),
                                     !.stateCacheTimestamp = s.callNow,
                                     !.wrote = "install"], info)

GetProcessStateFetchedNoStamp(t, s, result) ==
  IF ~ParseOk(result) THEN Threw(s, InvalidFormat)
  ELSE LET info == ParseProcessInfo(result)
       IN GotState(t, [s EXCEPT !.stateCache = Some(info), !.wrote = "install"], info)

GetProcessStateFetched(t, s, result) ==
  IF ~ParseOk(result) THEN Threw(s, InvalidFormat)
  ELSE LET info == ParseProcessInfo(result)
       IN GotState(t, [s EXCEPT !.stateCache = Some(info),
                                !.stateCacheTimestamp = s.callNow,
                                !.wrote = "install"], info)

\* getProcessState from its first line to its first await
GetProcessState(t, s, forceRefresh, t0) ==
  LET s1 == [s EXCEPT !.callNow = t0]
  IN IF CacheValid(forceRefresh, s.stateCache, s.stateCacheTimestamp, stateCacheTtlMs, t0)
     THEN GotState(t, s1, The(s.stateCache))
     ELSE SendAosDryRun(t, s1, DefaultRetries)

\* sendAosDryRun returned { result } to its caller
AfterDryRun(t, s, result) ==
  IF t.kind = "dryrun" THEN Returned(s, Some([result |-> result]))
  ELSE GetProcessStateFetched(t, Pop(s), result)

\* sendAosMessage returned { messageId, result } to its caller
AfterSendKeepCache(t, s, v) ==
  IF t.kind = "message" THEN Returned(s, Some(v)) ELSE Returned(Pop(s), None)

AfterSend(t, s, v) ==
  IF t.kind = "message" THEN Returned(s, Some(v))
  ELSE Returned(InvalidateStateCache(Pop(s)), None)

(* ------------------------------ actions ------------------------------- *)
\* no job in the slot
NoJob == [state |-> "none"]

NoTask == [kind |-> "none", name |-> "", wallet |-> <<>>, id |-> "", force |-> FALSE]
NoPrev == [kind |-> "none", name |-> "", wallet |-> <<>>, sent |-> 0]
NoCall == [at |-> 0, force |-> FALSE, queried |-> FALSE, status |-> "none",
           invalidated |-> FALSE, replaced |-> FALSE, within |-> {}]

CallsStarted == calls["j1"] + calls["j2"]

Free(p) == pc[p] \in {"idle", "returned", "failed"} /\ CallsStarted < MaxCalls

\* what every call entry does to the bookkeeping of job slot p
Enter(p, t, r) ==
  /\ task' = Upd(task, p, t)
  /\ retries' = Upd(retries, p, r)
  /\ calls' = Upd(calls, p, calls[p] + 1)
  /\ prev' = Upd(prev, p, [kind |-> task[p].kind, name |-> task[p].name,
                           wallet |-> task[p].wallet, sent |-> sent[p]])
  /\ sent' = Upd(sent, p, 0)

\* a new call starts with nothing left of the one before
Fresh(p) ==
  [Pop(Cur(p)) EXCEPT !.outcome = [error |-> NoError, value |-> None], !.callNow = 0,
                      !.sends = 0, !.queried = FALSE, !.obtained = None]

\* an earlier getProcessState call: not forced, returned with the snapshot it fetched, no
\* invalidation and no other refresh since, started less than the TTL before t
Settled(c, t) ==
  /\ c.status = "ok" /\ ~c.force /\ c.queried
  /\ ~c.invalidated /\ ~c.replaced
  /\ t - c.at < stateCacheTtlMs

\* how one step of p, having done s, bears on the latest direct getProcessState calls
Track(p, s) ==
  lastCallOf' =
    [q \in Procs |->
       LET c == lastCallOf[q]
       IN IF c.status = "none" THEN c
          ELSE [c EXCEPT
                  !.invalidated = @ \/ s.wrote = "invalidate",
                  !.replaced = @ \/ (s.wrote = "install" /\ q # p /\ c.status = "ok"),
                  !.status = IF q = p /\ @ = "pending" /\ s.pc = "returned" THEN "ok"
                             ELSE IF q = p /\ @ = "pending" /\ s.pc = "failed" THEN "failed"
                             ELSE @]]

\* a direct call of sendAosDryRun / sendAosMessage with a retries argument
ClientCall(p) ==
  /\ Free(p)
  /\ \E op \in {"dryrun", "message"}, r \in 0..MaxRetriesArg, w \in Wallets, a \in AchievementIds :
       LET t == [kind |-> op, name |-> "", wallet |-> w, id |-> a, force |-> FALSE]
           s == IF op = "dryrun" THEN SendAosDryRun(t, Fresh(p), r)
                ELSE SendAosMessage(t, Fresh(p), r)
       IN Enter(p, t, r) /\ Apply(p, s) /\ Track(p, s)
  /\ mustSee' = Upd(mustSee, p, {})
  /\ UNCHANGED <<now, faultsLeft, messages, messageCount, configVars, appVars, caught, inflight,
                 messageId, pendingNext>>

\* awardAchievement(achievementName, walletAddress), up to its first await on the network;
\* Date.now() in getProcessState reads t0, no earlier than the reading before
AwardAchievement(p, achievementName, walletAddr, t0) ==
  LET id == GetAchievementId(achievementName)
      t == [kind |-> "award", name |-> achievementName, wallet |-> walletAddr,
            id |-> IF id = None THEN "" ELSE The(id), force |-> FALSE]
      s == IF id = None THEN Returned(Fresh(p), None)
           ELSE GetProcessState(t, Fresh(p), FALSE, t0)
  IN /\ id = None => t0 = now
     /\ now' = t0
     /\ Enter(p, t, DefaultRetries) /\ Apply(p, s) /\ Track(p, s)
     /\ mustSee' = Upd(mustSee, p, IF id = None THEN {} ELSE pendingNext)
     /\ pendingNext' = IF id = None THEN pendingNext ELSE {}
     /\ UNCHANGED <<faultsLeft, messages, messageCount, configVars, startVars, caught,
                    inflight, messageId>>

\* a caller awarding some achievement to some wallet
AwardCall(p) ==
  /\ Free(p)
  /\ \E name \in Names, w \in Wallets, t0 \in now..MaxTime :
       AwardAchievement(p, name, w, t0)
  /\ UNCHANGED jobs

\* a direct call of getProcessState(forceRefresh); Date.now() reads t0
StartGetProcessState(p, force, t0) ==
  LET t == [kind |-> "read", name |-> "", wallet |-> <<>>, id |-> "", force |-> force]
      s == GetProcessState(t, Fresh(p), force, t0)
  IN /\ now' = t0
     /\ Enter(p, t, DefaultRetries) /\ Apply(p, s)
     /\ lastCallOf' = Upd(lastCallOf, p,
          [at |-> t0, force |-> force, queried |-> s.queried,
           status |-> IF s.pc = "returned" THEN "ok" ELSE "pending",
           invalidated |-> FALSE, replaced |-> FALSE,
           within |-> {q \in Procs : Settled(lastCallOf[q], t0)}])
     /\ mustSee' = Upd(mustSee, p, {})
     /\ UNCHANGED <<faultsLeft, messages, messageCount, stateCacheTtlMs, caught, inflight,
                    messageId, pendingNext>>

GetProcessStateCall(p) ==
  /\ Free(p)
  /\ \E force \in BOOLEAN, t0 \in now..MaxTime : StartGetProcessState(p, force, t0)
  /\ UNCHANGED <<achievementIdsByName, appVars>>

\* a direct call of invalidateStateCache()
InvalidateCall(p) ==
  /\ Free(p)
  /\ LET t == [kind |-> "invalidate", name |-> "", wallet |-> <<>>, id |-> "", force |-> FALSE]
         s == Returned(InvalidateStateCache(Fresh(p)), None)
     IN Enter(p, t, DefaultRetries) /\ Apply(p, s) /\ Track(p, s)
  /\ mustSee' = Upd(mustSee, p, {})
  /\ UNCHANGED <<now, faultsLeft, messages, messageCount, configVars, appVars, caught, inflight,
                 messageId, pendingNext>>

\* the remote process evaluates the dry run; the answer is on its way
DryRunEval(p) ==
  /\ Alive
  /\ pc[p] = "dry_eval"
  /\ \/ /\ inflight' = Upd(inflight, p, RemoteOk(GoodResult(messages)))
        /\ faultsLeft' = faultsLeft
     \/ /\ faultsLeft > 0
        /\ \E out \in {RemoteOk(r) : r \in BadResults} \cup {RemoteErr(e) : e \in RemoteErrors} :
             inflight' = Upd(inflight, p, out)
        /\ faultsLeft' = faultsLeft - 1
  /\ pc' = Upd(pc, p, "dry_reply")
  /\ UNCHANGED <<now, messages, messageCount, cacheVars, configVars, appVars, callVars, attempts,
                 lastError, caught, messageId, callNow, outcome, trace, sleeps, sent, sends,
                 queried, obtained, pendingNext, lastCallOf>>

\* `await aoDryRun(...)` settles: return { result }, or the catch block
DryRunReply(p) ==
  /\ Alive
  /\ pc[p] = "dry_reply"
  /\ LET out == inflight[p]
         s0 == [Cur(p) EXCEPT !.trace = Append(@, out)]
         s == IF out.ok THEN AfterDryRun(task[p], s0, The(out.value))
              ELSE Catch(task[p], s0, out.error, "dry_sleep")
     IN Apply(p, s) /\ Track(p, s)
  /\ caught' = Upd(caught, p, inflight[p].error)
  /\ inflight' = Upd(inflight, p, NoOutcome)
  /\ UNCHANGED <<now, faultsLeft, messages, messageCount, configVars, appVars, callVars, messageId,
                 sent, pendingNext>>

\* the backoff timer of sendAosDryRun fires
DryRunSleep(p) ==
  /\ Alive
  /\ pc[p] = "dry_sleep"
  /\ LET s == AfterSleep(task[p], Cur(p), caught[p], retries[p], "dry_eval")
     IN Apply(p, s) /\ Track(p, s)
  /\ caught' = Upd(caught, p, NoError)
  /\ UNCHANGED <<now, faultsLeft, messages, messageCount, configVars, appVars, callVars, inflight,
                 messageId, sent, pendingNext>>

\* `await aoMessage(...)` resolves: the ledger has accepted the award message
MsgAcceptedOnce(p) ==
  /\ Alive
  /\ pc[p] = "msg_submit"
  /\ [wallet |-> task[p].wallet, id |-> task[p].id] \notin messages
  /\ messages' = messages \cup {[wallet |-> task[p].wallet, id |-> task[p].id]}
  /\ messageCount' = messageCount + 1
  /\ messageId' = Upd(messageId, p, messageCount + 1)
  /\ sent' = Upd(sent, p, sent[p] + 1)
  /\ pc' = Upd(pc, p, "msg_result")
  /\ UNCHANGED <<now, faultsLeft, cacheVars, configVars, appVars, callVars, attempts, lastError,
                 caught, inflight, callNow, outcome, trace, sleeps, sends, queried, obtained,
                 pendingNext, lastCallOf>>

MsgAccepted(p) ==
  /\ Alive
  /\ pc[p] = "msg_submit"
  /\ messages' = messages \cup {[wallet |-> task[p].wallet, id |-> task[p].id]}
  /\ messageCount' = messageCount + 1
  /\ messageId' = Upd(messageId, p, messageCount + 1)
  /\ sent' = Upd(sent, p, sent[p] + 1)
  /\ pc' = Upd(pc, p, "msg_result")
  /\ UNCHANGED <<now, faultsLeft, cacheVars, configVars, appVars, callVars, attempts, lastError,
                 caught, inflight, callNow, outcome, trace, sleeps, sends, queried, obtained,
                 pendingNext, lastCallOf>>

\* `await aoMessage(...)` rejects: the catch block
MsgRefused(p) ==
  /\ Alive
  /\ pc[p] = "msg_submit"
  /\ faultsLeft > 0
  /\ faultsLeft' = faultsLeft - 1
  /\ \E e \in RemoteErrors :
       LET s == Catch(task[p], [Cur(p) EXCEPT !.trace = Append(@, RemoteErr(e))], e, "msg_sleep")
       IN Apply(p, s) /\ Track(p, s) /\ caught' = Upd(caught, p, e)
  /\ UNCHANGED <<now, messages, messageCount, configVars, appVars, callVars, inflight, messageId,
                 sent, pendingNext>>

\* `await aoResult(...)` settles: return { messageId, result }, or the catch block
MsgResult(p) ==
  /\ Alive
  /\ pc[p] = "msg_result"
  /\ \/ LET v == [messageId |-> messageId[p], result |-> [Output |-> messageId[p]]]
            s == AfterSend(task[p], [Cur(p) EXCEPT !.trace = Append(@, RemoteOk(v))], v)
        IN /\ Apply(p, s) /\ Track(p, s)
           /\ caught' = caught
           /\ faultsLeft' = faultsLeft
           /\ pendingNext' = IF task[p].kind = "award"
                             THEN pendingNext \cup {[wallet |-> task[p].wallet, id |-> task[p].id]}
                             ELSE pendingNext
     \/ /\ faultsLeft > 0
        /\ faultsLeft' = faultsLeft - 1
        /\ pendingNext' = pendingNext
        /\ \E e \in RemoteErrors :
             LET s == Catch(task[p], [Cur(p) EXCEPT !.trace = Append(@, RemoteErr(e))], e,
                            "msg_sleep")
             IN Apply(p, s) /\ Track(p, s) /\ caught' = Upd(caught, p, e)
  /\ messageId' = Upd(messageId, p, 0)
  /\ UNCHANGED <<now, messages, messageCount, configVars, appVars, callVars, inflight, sent>>

\* the backoff timer of sendAosMessage fires
MsgSleepRefetch(p) ==
  /\ Alive
  /\ pc[p] = "msg_sleep"
  /\ LET s == AfterSleep(task[p], Cur(p), caught[p], retries[p],
                         IF sent[p] > 0 THEN "msg_result" ELSE "msg_submit")
     IN Apply(p, s) /\ Track(p, s)
  /\ caught' = Upd(caught, p, NoError)
  /\ UNCHANGED <<now, faultsLeft, messages, messageCount, configVars, appVars, callVars, inflight,
                 messageId, sent, pendingNext>>

MsgSleep(p) ==
  /\ Alive
  /\ pc[p] = "msg_sleep"
  /\ LET s == AfterSleep(task[p], Cur(p), caught[p], retries[p], "msg_submit")
     IN Apply(p, s) /\ Track(p, s)
  /\ caught' = Upd(caught, p, NoError)
  /\ UNCHANGED <<now, faultsLeft, messages, messageCount, configVars, appVars, callVars, inflight,
                 messageId, sent, pendingNext>>

(* --------------------------- specifications --------------------------- *)
\* the service as constructed, the required names mapped as startup leaves them
(* ---------------------- the reward event processor --------------------- *)
\* everything but the queue and the startup state
serviceVars == <<now, faultsLeft, messages, messageCount, stateCache, stateCacheTimestamp,
                 stateCacheTtlMs, achievementIdsByName, pc, task, retries, attempts,
                 lastError, caught, inflight, messageId, callNow, outcome, trace, sleeps,
                 calls, sent, sends, queried, obtained, prev, pendingNext, mustSee,
                 lastCallOf>>

\* message.includes(part)
Includes(message, part) ==
  \E i \in 1..(Len(message) - Len(part) + 1) :
    SubSeq(message, i, i + Len(part) - 1) = part

\* ---- WalletValidator (src/utils/wallet.validator), from its contract
\* the model's address alphabet: hex digits with and without a letter case, and one
\* character that is no hex digit
ToLowerCase(c) == CASE c = "A" -> "a" [] c = "B" -> "b" [] OTHER -> c
ToUpperCase(c) == CASE c = "a" -> "A" [] c = "b" -> "B" [] OTHER -> c
HexValue(c) == CASE c = "1" -> 1 [] c \in {"a", "A"} -> 10 [] c \in {"b", "B"} -> 11
                 [] OTHER -> 0
IsHex(c) == c \in {"1", "a", "A", "b", "B"}
AddressChars == {"1", "a", "A", "b", "B", "g"}
EvmPrefix == <<"0", "x">>

LowerCased(text) == [i \in 1..Len(text) |-> ToLowerCase(text[i])]
UpperCased(text) == [i \in 1..Len(text) |-> ToUpperCase(text[i])]

\* the digest the checksum is derived from: a fixed function of the lower-cased digits
RECURSIVE Digest(_)
Digest(text) == IF text = <<>> THEN 0 ELSE HexValue(Head(text)) + Digest(Tail(text))

\* the checksummed form of a lower-cased address body: the digest decides, digit by
\* digit, which letters are upper case
ToChecksum(lower) ==
  [i \in 1..Len(lower) |-> IF (Digest(lower) + i) % 2 = 0 THEN ToUpperCase(lower[i])
                                                           ELSE lower[i]]

IsEvmShaped(raw) ==
  /\ Len(raw) = 2 + HexLen
  /\ SubSeq(raw, 1, 2) = EvmPrefix
  /\ \A i \in 3..Len(raw) : IsHex(raw[i])

ArweaveSample == <<"v", "L", "-">>
SolanaSample == <<"7", "S", "3", "P", "4">>
InvalidWalletError == <<"b", "a", "d", " ", "f", "o", "r", "m", "a", "t">>
Invalid == [valid |-> FALSE, type |-> "", normalized |-> <<>>, error |-> InvalidWalletError]

\* a validator that re-cases whatever it is given
ValidateAndNormalizeRecased(raw) ==
  IF IsEvmShaped(raw)
  THEN [valid |-> TRUE, type |-> "evm",
        normalized |-> EvmPrefix \o ToChecksum(LowerCased(SubSeq(raw, 3, Len(raw)))),
        error |-> NoError]
  ELSE IF raw \in {SolanaSample, ArweaveSample}
  THEN [valid |-> TRUE, type |-> IF raw = SolanaSample THEN "solana" ELSE "arweave",
        normalized |-> raw, error |-> NoError]
  ELSE Invalid

\* validateAndNormalize: an EVM address in one letter case is re-cased to its checksummed
\* form, a mixed-case one is an asserted checksum and must be the checksummed form, a
\* Solana or Arweave address is kept, anything else is rejected
ValidateAndNormalize(raw) ==
  IF IsEvmShaped(raw)
  THEN LET body == SubSeq(raw, 3, Len(raw))
           canonical == ToChecksum(LowerCased(body))
       IN IF body = LowerCased(body) \/ body = UpperCased(body) \/ body = canonical
          THEN [valid |-> TRUE, type |-> "evm", normalized |-> EvmPrefix \o canonical,
                error |-> NoError]
          ELSE Invalid
  ELSE IF raw = SolanaSample
  THEN [valid |-> TRUE, type |-> "solana", normalized |-> raw, error |-> NoError]
  ELSE IF raw = ArweaveSample
  THEN [valid |-> TRUE, type |-> "arweave", normalized |-> raw, error |-> NoError]
  ELSE Invalid

\* a job as queue.add(name, data, opts) leaves it: its name is the event type, data holds
\* walletAddress and the optional metadata, opts.attempts is the number of attempts
AddJob(name, raw, metadata, optsAttempts) ==
  [state |-> "waiting", name |-> name, walletAddress |-> raw, metadata |-> metadata,
   attempts |-> optsAttempts,
   attemptsMade |-> 0, settled |-> "none", error |-> NoError, returnvalue |-> None,
   failedReason |-> NoError, wallet |-> <<>>, walletType |-> "", awarded |-> <<>>,
   callsBefore |-> 0, sentOk |-> {}]

\* a job as queue.add(name, data) leaves it, under the queue's default job options
NewJob(name, raw) == AddJob(name, raw, None, JobAttempts)

\* the achievement each handler awards after the generic one; "" where handleEvent has
\* no case for the job name
HandlerAchievementSwapped(name) ==
  CASE name = "arns-search" -> ACHIEVEMENT_WUZZY_ARNS_SEARCHER
    [] name = "image-search" -> ACHIEVEMENT_WUZZY_IMAGE_SEARCHER
    [] name = "audio-search" -> ACHIEVEMENT_WUZZY_VIDEO_SEARCHER
    [] name = "video-search" -> ACHIEVEMENT_WUZZY_AUDIO_SEARCHER
    [] OTHER -> ""

HandlerAchievement(name) ==
  CASE name = "arns-search" -> ACHIEVEMENT_WUZZY_ARNS_SEARCHER
    [] name = "image-search" -> ACHIEVEMENT_WUZZY_IMAGE_SEARCHER
    [] name = "audio-search" -> ACHIEVEMENT_WUZZY_AUDIO_SEARCHER
    [] name = "video-search" -> ACHIEVEMENT_WUZZY_VIDEO_SEARCHER
    [] OTHER -> ""

\* process(job) up to what it hands to handleEvent: the error it throws, or none
ValidateSkipped(job) ==
  [error |-> NoError, normalized |-> job.walletAddress, type |-> "evm"]

ValidateKeepRaw(job) ==
  LET validation == ValidateAndNormalize(job.walletAddress)
  IN IF ~validation.valid
     THEN [error |-> WalletValidationFailed \o <<":", " ">> \o validation.error,
           normalized |-> <<>>, type |-> ""]
     ELSE [error |-> NoError, normalized |-> job.walletAddress, type |-> validation.type]

ValidateOnFirstAttempt(job) ==
  IF job.attemptsMade > 0 THEN ValidateSkipped(job)
  ELSE LET validation == ValidateAndNormalize(job.walletAddress)
       IN IF ~validation.valid
          THEN [error |-> WalletValidationFailed \o <<":", " ">> \o validation.error,
                normalized |-> <<>>, type |-> ""]
          ELSE [error |-> NoError, normalized |-> validation.normalized,
                type |-> validation.type]

Validate(job) ==
  LET validation == ValidateAndNormalize(job.walletAddress)
  IN IF ~validation.valid
     THEN [error |-> WalletValidationFailed \o <<":", " ">> \o validation.error,
           normalized |-> <<>>, type |-> ""]
     ELSE IF validation.normalized = <<>> \/ validation.type = ""
     THEN [error |-> MissingNormalized, normalized |-> <<>>, type |-> ""]
     ELSE [error |-> NoError, normalized |-> validation.normalized,
           type |-> validation.type]

\* handleEvent's default case
Route(job) ==
  IF HandlerAchievement(job.name) = "" THEN UnknownJobType \o <<job.name>> ELSE NoError

\* the error process(job) throws before any awardAchievement call, or none: the wallet is
\* validated first, the job name is looked at only when handleEvent is called
ProcessThrowsRouteFirst(job) ==
  IF Route(job) # NoError THEN Route(job) ELSE Validate(job).error

ProcessThrows(job) ==
  IF Validate(job).error # NoError THEN Validate(job).error ELSE Route(job)

Active == {p \in Procs : jobs[p].state = "active"}

\* the worker takes a waiting job and runs process(job) up to its first await: wallet
\* validation, routing, and the handler's first awardAchievement call. Nothing in the
\* sources makes the worker wait for onModuleInit, so it may take a job while the service
\* starts, in a slot the startup does not run in
Process(p) ==
  /\ Alive /\ (boot = "ready" \/ p # Starter)
  /\ jobs[p].state = "waiting"
  /\ Cardinality(Active) < WorkerConcurrency
  /\ LET job == [jobs[p] EXCEPT !.state = "active", !.awarded = <<>>,
                                !.callsBefore = calls[p]]
     IN \E v \in {Validate(job)}, e \in {ProcessThrows(job)} :
        IF e # NoError
        THEN /\ jobs' = Upd(jobs, p, [job EXCEPT !.settled = "rejected", !.error = e])
             /\ UNCHANGED serviceVars
        ELSE /\ \E t0 \in now..MaxTime :
                  AwardAchievement(p, ACHIEVEMENT_WUZZY_SEARCHER, v.normalized, t0)
             /\ jobs' = Upd(jobs, p, [job EXCEPT !.settled = "pending",
                                                 !.wallet = v.normalized,
                                                 !.walletType = v.type,
                                                 !.awarded = <<ACHIEVEMENT_WUZZY_SEARCHER>>])
  /\ UNCHANGED startVars

InHandler(p) == jobs[p].state = "active" /\ jobs[p].settled = "pending"

\* the achievement the awardAchievement call p's handler awaited has sent, if it returned
\* after a successful sendAosMessage
JustSent(p) == IF pc[p] = "returned" /\ sends[p] > 0 THEN {task[p].name} ELSE {}

\* the handler resumes after its first awardAchievement returned and calls the second
HandlerSecondRegardless(p) ==
  /\ Alive
  /\ InHandler(p) /\ Len(jobs[p].awarded) = 1
  /\ pc[p] \in {"returned", "failed"}
  /\ \E t0 \in now..MaxTime :
       AwardAchievement(p, HandlerAchievement(jobs[p].name), jobs[p].wallet, t0)
  /\ jobs' = Upd(jobs, p, [jobs[p] EXCEPT
                             !.awarded = Append(@, HandlerAchievement(jobs[p].name)),
                             !.sentOk = @ \cup JustSent(p)])

HandlerSecond(p) ==
  /\ Alive
  /\ InHandler(p) /\ Len(jobs[p].awarded) = 1
  /\ pc[p] = "returned"
  /\ \E t0 \in now..MaxTime :
       AwardAchievement(p, HandlerAchievement(jobs[p].name), jobs[p].wallet, t0)
  /\ jobs' = Upd(jobs, p, [jobs[p] EXCEPT
                             !.awarded = Append(@, HandlerAchievement(jobs[p].name)),
                             !.sentOk = @ \cup JustSent(p)])

\* the handler resumes after its second awardAchievement returned; process returns its
\* result record
HandlerReturnNoMetadata(p) ==
  /\ Alive
  /\ InHandler(p) /\ Len(jobs[p].awarded) = 2
  /\ pc[p] = "returned"
  /\ jobs' = Upd(jobs, p,
       [jobs[p] EXCEPT
          !.settled = "resolved",
          !.sentOk = @ \cup JustSent(p),
          !.returnvalue = Some([success |-> TRUE, eventType |-> jobs[p].name,
                                wallet |-> jobs[p].wallet,
                                walletType |-> jobs[p].walletType,
                                processedAt |-> now,
                                metadata |-> None])])
  /\ UNCHANGED <<serviceVars, startVars>>

HandlerReturn(p) ==
  /\ Alive
  /\ InHandler(p) /\ Len(jobs[p].awarded) = 2
  /\ pc[p] = "returned"
  /\ jobs' = Upd(jobs, p,
       [jobs[p] EXCEPT
          !.settled = "resolved",
          !.sentOk = @ \cup JustSent(p),
          !.returnvalue = Some([success |-> TRUE, eventType |-> jobs[p].name,
                                wallet |-> jobs[p].wallet,
                                walletType |-> jobs[p].walletType,
                                processedAt |-> now,
                                metadata |-> jobs[p].metadata])])
  /\ UNCHANGED <<serviceVars, startVars>>

\* an awardAchievement call raised: process's catch block logs and rethrows
ProcessCatchSwallowed(p) ==
  /\ Alive
  /\ InHandler(p)
  /\ pc[p] = "failed"
  /\ jobs' = Upd(jobs, p, [jobs[p] EXCEPT !.settled = "resolved", !.returnvalue = None])
  /\ UNCHANGED <<serviceVars, startVars>>

ProcessCatch(p) ==
  /\ Alive
  /\ InHandler(p)
  /\ pc[p] = "failed"
  /\ jobs' = Upd(jobs, p, [jobs[p] EXCEPT !.settled = "rejected",
                                          !.error = outcome[p].error])
  /\ UNCHANGED <<serviceVars, startVars>>

\* the queue engine, process(job) having returned: the job joins the completed set
MoveToCompleted(p) ==
  /\ Alive
  /\ jobs[p].state = "active" /\ jobs[p].settled = "resolved"
  /\ jobs' = Upd(jobs, p, [jobs[p] EXCEPT !.state = "completed",
                                          !.attemptsMade = @ + 1])
  /\ UNCHANGED <<serviceVars, startVars>>

\* the queue engine, process(job) having thrown: the job waits for its next attempt
\* while it has attempts left, and joins the failed set otherwise
MoveToFailedOneMore(p) ==
  /\ Alive
  /\ jobs[p].state = "active" /\ jobs[p].settled = "rejected"
  /\ jobs' = Upd(jobs, p,
       [jobs[p] EXCEPT
          !.attemptsMade = @ + 1,
          !.failedReason = jobs[p].error,
          !.state = IF jobs[p].attemptsMade < jobs[p].attempts THEN "waiting"
                    ELSE "failed"])
  /\ UNCHANGED <<serviceVars, startVars>>

MoveToFailed(p) ==
  /\ Alive
  /\ jobs[p].state = "active" /\ jobs[p].settled = "rejected"
  /\ jobs' = Upd(jobs, p,
       [jobs[p] EXCEPT
          !.attemptsMade = @ + 1,
          !.failedReason = jobs[p].error,
          !.state = IF jobs[p].attemptsMade + 1 < jobs[p].attempts THEN "waiting"
                    ELSE "failed"])
  /\ UNCHANGED <<serviceVars, startVars>>

(* ------------------------------- startup ------------------------------- *)
Configs == {"ok", "no-jwk-path", "no-process-id", "no-jwk-file"}

\* ledgers the service may find itself started against
Acls ==
  {None,
   Some([roles |-> None]),
   Some([roles |-> Some([r \in {"Update-Cheese-Mint"} |-> [a \in {"svc"} |-> TRUE]])]),
   Acl([a \in {"other"} |-> TRUE]),
   Acl([a \in {"svc", "other"} |-> a = "other"]),
   Acl([a \in {"svc", "other"} |-> a = "svc"])}
Catalogs ==
  {None,
   Some([id \in {} |-> [name |-> ""]]),
   Some([id \in {"a1", "a2", "a3"} |-> FullCatalog[id]]),
   Some([id \in {"a1", "a2", "a3", "a4"} |-> FullCatalog[id]]),
   Some(FullCatalog)}

\* missingAchievements.join(', ')
RECURSIVE Join(_)
Join(names) ==
  IF Len(names) = 0 THEN <<>>
  ELSE IF Len(names) = 1 THEN <<names[1]>>
  ELSE <<names[1], ",", " ">> \o Join(Tail(names))

\* verifyAclPermissions: the error it throws, or none
VerifyAclPermissionsKeyOnly(info, address) ==
  IF info.acl = None \/ The(info.acl).roles = None THEN NoAclFound
  ELSE LET roles == The(The(info.acl).roles)
       IN IF AwardRole \notin DOMAIN roles THEN NotConfigured
          ELSE IF address \notin DOMAIN roles[AwardRole] THEN NoPermission
          ELSE NoError

VerifyAclPermissions(info, address) ==
  IF info.acl = None \/ The(info.acl).roles = None THEN NoAclFound
  ELSE LET roles == The(The(info.acl).roles)
       IN IF AwardRole \notin DOMAIN roles THEN NotConfigured
          ELSE IF address \notin DOMAIN roles[AwardRole] \/ ~roles[AwardRole][address]
          THEN NoPermission
          ELSE NoError

\* loadAchievementIds: the mapping it leaves behind and the error it throws, or none
LoadAchievementIdsFirstMissing(info, byName) ==
  IF info.cheese_mints_by_id = None THEN [map |-> byName, error |-> NoCatalogFound]
  ELSE LET mintsById == The(info.cheese_mints_by_id)
           names == {mintsById[id].name : id \in DOMAIN mintsById}
           map == [n \in names \cup DOMAIN byName |->
                     IF n \in names THEN CHOOSE id \in DOMAIN mintsById : mintsById[id].name = n
                     ELSE byName[n]]
           missingAchievements == SelectSeq(REQUIRED_ACHIEVEMENTS, LAMBDA n : n \notin DOMAIN map)
       IN [map |-> map,
           error |-> IF Len(missingAchievements) > 0
                     THEN RequiredNotFound \o <<missingAchievements[1]>>
                     ELSE NoError]

LoadAchievementIds(info, byName) ==
  IF info.cheese_mints_by_id = None THEN [map |-> byName, error |-> NoCatalogFound]
  ELSE LET mintsById == The(info.cheese_mints_by_id)
           names == {mintsById[id].name : id \in DOMAIN mintsById}
           map == [n \in names \cup DOMAIN byName |->
                     IF n \in names THEN CHOOSE id \in DOMAIN mintsById : mintsById[id].name = n
                     ELSE byName[n]]
           missingAchievements == SelectSeq(REQUIRED_ACHIEVEMENTS, LAMBDA n : n \notin DOMAIN map)
       IN [map |-> map,
           error |-> IF Len(missingAchievements) > 0
                     THEN RequiredNotFound \o Join(missingAchievements)
                     ELSE NoError]

\* onModuleInit throws e: bootstrap's catch handler logs and ends the process
StartupFailed(e) ==
  /\ startupError' = e
  /\ boot' = "exited"

\* onModuleInit up to its await of getProcessState in verifyInitialization
OnModuleInit(p) ==
  /\ p = Starter /\ boot = "created" /\ pc[p] = "idle"
  /\ IF config # "ok"
     THEN /\ StartupFailed(CASE config = "no-jwk-path" -> JwkPathRequired
                             [] config = "no-process-id" -> ProcessIdRequired
                             [] OTHER -> JwkUnreadable)
          /\ UNCHANGED <<serviceVars, thisWalletAddress>>
     ELSE /\ thisWalletAddress' = "svc"
          /\ boot' = "verifying"
          /\ \E t0 \in now..MaxTime : StartGetProcessState(p, FALSE, t0)
          /\ UNCHANGED <<achievementIdsByName, startupError>>
  /\ UNCHANGED <<jobs, ledger, config>>

\* verifyInitialization after `await this.getProcessState()`, and onModuleInit's catch
VerifyInitializationLogged(p) ==
  /\ p = Starter /\ boot = "verifying" /\ pc[p] \in {"returned", "failed"}
  /\ IF pc[p] = "failed"
     THEN startupError' = outcome[p].error /\ UNCHANGED achievementIdsByName
     ELSE LET state == The(outcome[p].value)
              denied == VerifyAclPermissions(state, thisWalletAddress)
              loaded == LoadAchievementIds(state, achievementIdsByName)
          IN IF denied # NoError
             THEN startupError' = denied /\ UNCHANGED achievementIdsByName
             ELSE /\ achievementIdsByName' = loaded.map
                  /\ startupError' = loaded.error
  /\ boot' = "ready"
  /\ UNCHANGED <<now, faultsLeft, messages, messageCount, cacheVars, stateCacheTtlMs, pc,
                 task, retries, attempts, lastError, caught, inflight, messageId, callNow,
                 outcome, trace, sleeps, calls, sent, sends, queried, obtained, prev,
                 pendingNext, mustSee, lastCallOf, jobs, thisWalletAddress, ledger, config>>

VerifyInitialization(p) ==
  /\ p = Starter /\ boot = "verifying" /\ pc[p] \in {"returned", "failed"}
  /\ IF pc[p] = "failed"
     THEN StartupFailed(outcome[p].error) /\ UNCHANGED achievementIdsByName
     ELSE LET state == The(outcome[p].value)
              denied == VerifyAclPermissions(state, thisWalletAddress)
              loaded == LoadAchievementIds(state, achievementIdsByName)
          IN IF denied # NoError
             THEN StartupFailed(denied) /\ UNCHANGED achievementIdsByName
             ELSE /\ achievementIdsByName' = loaded.map
                  /\ IF loaded.error # NoError THEN StartupFailed(loaded.error)
                     ELSE boot' = "ready" /\ UNCHANGED startupError
  /\ UNCHANGED <<now, faultsLeft, messages, messageCount, cacheVars, stateCacheTtlMs, pc,
                 task, retries, attempts, lastError, caught, inflight, messageId, callNow,
                 outcome, trace, sleeps, calls, sent, sends, queried, obtained, prev,
                 pendingNext, mustSee, lastCallOf, jobs, thisWalletAddress, ledger, config>>

InitSlots ==
  /\ now = 1
  /\ messages = {}
  /\ messageCount = 0
  /\ stateCacheTtlMs \in 1..MaxTtl
  /\ pc = [p \in Procs |-> "idle"]
  /\ task = [p \in Procs |-> NoTask]
  /\ retries = [p \in Procs |-> DefaultRetries]
  /\ attempts = [p \in Procs |-> 0]
  /\ lastError = [p \in Procs |-> NoError]
  /\ caught = [p \in Procs |-> NoError]
  /\ inflight = [p \in Procs |-> NoOutcome]
  /\ messageId = [p \in Procs |-> 0]
  /\ callNow = [p \in Procs |-> 0]
  /\ outcome = [p \in Procs |-> [error |-> NoError, value |-> None]]
  /\ trace = [p \in Procs |-> <<>>]
  /\ sleeps = [p \in Procs |-> <<>>]
  /\ sent = [p \in Procs |-> 0]
  /\ sends = [p \in Procs |-> 0]
  /\ queried = [p \in Procs |-> FALSE]
  /\ obtained = [p \in Procs |-> None]
  /\ prev = [p \in Procs |-> NoPrev]
  /\ pendingNext = {}
  /\ mustSee = [p \in Procs |-> {}]
  /\ lastCallOf = [p \in Procs |-> NoCall]
  /\ calls = [p \in Procs |-> 0]

\* the service after a successful startup against a ledger that permits it
Started ==
  /\ ledger = ReadyLedger("svc")
  /\ config = "ok"
  /\ thisWalletAddress = "svc"
  /\ boot = "ready"
  /\ startupError = NoError
  /\ achievementIdsByName =
       [n \in {FullCatalog[id].name : id \in DOMAIN FullCatalog} |->
          CHOOSE id \in DOMAIN FullCatalog : FullCatalog[id].name = n]

\* the service after a successful startup, the queue empty
InitCommon ==
  /\ InitSlots /\ Started
  /\ jobs = [p \in Procs |-> NoJob]

\* the cache as the constructor leaves it, or as the startup fetch fills it
InitCache ==
  \/ stateCache = None /\ stateCacheTimestamp = 0
  \/ stateCache = Some(EmptyState) /\ stateCacheTimestamp = 1

Init ==
  /\ InitCommon /\ InitCache
  /\ faultsLeft = AwardFaults

InitClient ==
  /\ InitCommon /\ InitCache
  /\ faultsLeft = ClientFaults

InitCacheCalls ==
  /\ InitCommon /\ InitCache
  /\ faultsLeft = CacheFaults

Network(p) ==
  \/ DryRunEval(p) \/ DryRunReply(p) \/ DryRunSleep(p)
  \/ MsgAccepted(p) \/ MsgRefused(p) \/ MsgResult(p) \/ MsgSleep(p)

\* jobs awarding achievements
Next == \E p \in Procs : AwardCall(p) \/ Network(p)
Spec == Init /\ [][Next]_vars

\* the worker processing queued reward events
InitJobs ==
  /\ InitSlots /\ Started /\ InitCache
  /\ faultsLeft = JobFaults
  /\ jobs \in [Procs -> {NewJob(n, w) : n \in JobNames, w \in RawWallets}]

Worker(p) ==
  \/ Process(p) \/ HandlerSecond(p) \/ HandlerReturn(p) \/ ProcessCatch(p)
  \/ MoveToCompleted(p) \/ MoveToFailed(p)

NextJobs == \E p \in Procs : Worker(p) \/ Network(p)
SpecJobs == InitJobs /\ [][NextJobs]_vars
\* ---- one job added with explicit options: any address of the model's alphabet, with or
\* without metadata, under the default number of attempts or a single one
OptWallets ==
  {EvmPrefix \o body : body \in [1..HexLen -> AddressChars]}
    \cup {ArweaveSample, SolanaSample, InvalidWalletAddress}
Metadatas == {None, Some("query")}
AttemptsOpts == {1, JobAttempts}

InitOpts ==
  /\ InitSlots /\ Started /\ InitCache
  /\ faultsLeft = JobFaults
  /\ \E n \in JobNames, w \in OptWallets, m \in Metadatas, a \in AttemptsOpts :
       jobs = [p \in Procs |-> IF p = Starter THEN AddJob(n, w, m, a) ELSE NoJob]

SpecOpts == InitOpts /\ [][NextJobs]_vars

\* the event loop keeps running what can run: replies arrive, timers fire, the worker
\* picks up waiting jobs
FairSpecJobs == SpecJobs /\ WF_vars(NextJobs)

\* the process from construction on: the service starts while jobs wait in the queue
InitBoot ==
  /\ InitSlots
  /\ ledger \in [acl : Acls, cheese_mints_by_id : Catalogs]
  /\ config \in Configs
  /\ thisWalletAddress = ""
  /\ boot = "created"
  /\ startupError = NoError
  /\ achievementIdsByName = [n \in {} |-> ""]
  /\ stateCache = None /\ stateCacheTimestamp = 0
  /\ faultsLeft = BootFaults
  /\ jobs \in [Procs -> {NewJob("arns-search", LowerAb), NewJob("video-search", ChecksumAb)}]

NextBoot ==
  \/ OnModuleInit(Starter) \/ VerifyInitialization(Starter)
  \/ \E p \in Procs : Worker(p) \/ Network(p)
SpecBoot == InitBoot /\ [][NextBoot]_vars

\* direct Ledger Client calls, by one caller: they share no state
NextClient == ClientCall("j1") \/ Network("j1")
SpecClient == InitClient /\ [][NextClient]_vars
\* every remote round trip settles and every timer fires
FairSpecClient == SpecClient /\ WF_vars(Network("j1"))

\* direct calls of the cache operations
NextCache ==
  \E p \in Procs : GetProcessStateCall(p) \/ InvalidateCall(p)
                    \/ DryRunEval(p) \/ DryRunReply(p) \/ DryRunSleep(p)
SpecCache == InitCacheCalls /\ [][NextCache]_vars

(* ------------------------------- claims ------------------------------- *)
\* an award record for (walletAddress, achievementId) in a ledger state
HasRecord(state, walletAddress, achievementId) ==
  /\ walletAddress \in DOMAIN state.cheese_mints_by_address
  /\ achievementId \in state.cheese_mints_by_address[walletAddress]

ClientKinds == {"dryrun", "message"}
ServerError(o) == ~o.ok /\ Includes500(o.error)

\* C1 (as stated): awardAchievement(name, wallet) called twice in sequence by one job,
\* nothing else running, the second call reading a state that holds the record the first
\* created: the two calls together put exactly one award message on the ledger.
C1Original ==
  \A p \in Procs :
    ( /\ task[p].kind = "award" /\ task[p].id # ""
      /\ prev[p].kind = "award" /\ prev[p].name = task[p].name
      /\ prev[p].wallet = task[p].wallet
      /\ prev[p].sent >= 1
      /\ \A q \in Procs \ {p} : calls[q] = 0
      /\ pc[p] = "returned"
      /\ obtained[p] # None
      /\ HasRecord(The(obtained[p]), task[p].wallet, task[p].id) )
    => prev[p].sent + sent[p] = 1

\* C2: whenever the state awardAchievement obtained holds a record for
\* (walletAddress, achievementId), the call has returned without error and has neither
\* called sendAosMessage nor put a message on the ledger.
C2 ==
  \A p \in Procs :
    ( /\ task[p].kind = "award"
      /\ obtained[p] # None
      /\ HasRecord(The(obtained[p]), task[p].wallet, task[p].id) )
    => /\ pc[p] = "returned"
       /\ outcome[p] = [error |-> NoError, value |-> None]
       /\ sends[p] = 0
       /\ sent[p] = 0

C2Witness ==
  \E p \in Procs :
    /\ task[p].kind = "award" /\ pc[p] = "returned"
    /\ obtained[p] # None
    /\ HasRecord(The(obtained[p]), task[p].wallet, task[p].id)
    /\ sends[p] = 0

\* two jobs in the same award, each having read a state without the record
Racing(p, q) ==
  /\ p # q
  /\ task[p].kind = "award" /\ task[q].kind = "award"
  /\ task[p].wallet = task[q].wallet /\ task[p].id = task[q].id
  /\ obtained[p] # None /\ ~HasRecord(The(obtained[p]), task[p].wallet, task[p].id)
  /\ obtained[q] # None /\ ~HasRecord(The(obtained[q]), task[q].wallet, task[q].id)

\* C3: of two concurrent jobs for the same wallet and achievement that both read a state
\* lacking the record, the one about to submit can have its message accepted although the
\* other's already was; and when both have returned, both did submit: the ledger took two
\* award messages for the one pair.
C3 ==
  \A p, q \in Procs :
    /\ (Racing(p, q) /\ pc[p] = "msg_submit" /\ sent[q] >= 1) => ENABLED MsgAccepted(p)
    /\ (Racing(p, q) /\ pc[p] = "returned" /\ pc[q] = "returned")
         => sent[p] >= 1 /\ sent[q] >= 1 /\ messageCount >= 2

C3Witness ==
  \E p, q \in Procs :
    /\ Racing(p, q) /\ pc[p] = "returned" /\ pc[q] = "returned"
    /\ sent[p] >= 1 /\ sent[q] >= 1 /\ messageCount >= 2

\* the first two attempts failed with a server error, the third succeeded
C4Case(p) ==
  /\ task[p].kind \in ClientKinds
  /\ Len(trace[p]) = 3
  /\ ServerError(trace[p][1]) /\ ServerError(trace[p][2])
  /\ trace[p][3].ok

\* C4: a Ledger Client call whose first two attempts fail with a server error and whose
\* third succeeds returns the third attempt's result, having slept exactly twice: 2000 ms,
\* then 4000 ms.
C4 ==
  \A p \in Procs :
    C4Case(p) =>
      /\ pc[p] = "returned"
      /\ outcome[p].error = NoError
      /\ outcome[p].value = IF task[p].kind = "dryrun"
                            THEN Some([result |-> The(trace[p][3].value)])
                            ELSE trace[p][3].value
      /\ sleeps[p] = <<2000, 4000>>

C4Witness == \E p \in Procs : C4Case(p) /\ pc[p] = "returned" /\ Len(sleeps[p]) = 2

\* C5: when an attempt of a Ledger Client call fails with an error that is not a server
\* error, that attempt is the call's last, the call has raised that very error, and the only
\* sleeps are those that followed the earlier attempts: none follows this one.
C5 ==
  \A p \in Procs :
    task[p].kind \in ClientKinds =>
      \A k \in 1..Len(trace[p]) :
        (~trace[p][k].ok /\ ~Includes500(trace[p][k].error)) =>
          /\ k = Len(trace[p])
          /\ pc[p] = "failed"
          /\ outcome[p] = [error |-> trace[p][k].error, value |-> None]
          /\ Len(sleeps[p]) = k - 1

C5Witness ==
  \E p \in Procs :
    /\ task[p].kind \in ClientKinds /\ pc[p] = "failed"
    /\ Len(trace[p]) = 2
    /\ ServerError(trace[p][1])
    /\ ~trace[p][2].ok /\ ~Includes500(trace[p][2].error)

\* every attempt the retry count allows was made, and each failed with a server error
AllFailed(p) ==
  /\ task[p].kind \in ClientKinds
  /\ retries[p] > 0
  /\ Len(trace[p]) = retries[p]
  /\ \A k \in 1..Len(trace[p]) : ServerError(trace[p][k])

\* C6: a Ledger Client call makes no more attempts than its retry count, so at most 3 under
\* the default; when all of them fail with a server error the call, once its last sleep is
\* over, raises the last attempt's error; with a retry count of 0 it makes no attempt and
\* raises 'Unknown error occurred'.
C6 ==
  \A p \in Procs :
    /\ Len(trace[p]) <= retries[p]
    /\ retries[p] = DefaultRetries => Len(trace[p]) <= 3
    /\ AllFailed(p) =>
         \/ pc[p] \in {"dry_sleep", "msg_sleep"}
         \/ /\ pc[p] = "failed"
            /\ outcome[p] = [error |-> trace[p][Len(trace[p])].error, value |-> None]
    /\ (task[p].kind \in ClientKinds /\ retries[p] = 0) =>
         /\ pc[p] = "failed"
         /\ trace[p] = <<>>
         /\ outcome[p] = [error |-> UnknownError, value |-> None]

C6Witness ==
  \E p \in Procs :
    /\ AllFailed(p) /\ retries[p] = DefaultRetries /\ pc[p] = "failed"
    /\ trace[p][1].error # trace[p][3].error

\* p starts a getProcessState() call in this step
StartsRead(p) == calls'[p] > calls[p] /\ task'[p].kind = "read"

\* p starts a getProcessState() call, c being an earlier one (the latest of some job slot):
\* neither forced, no invalidation since c started, p's starting less than the TTL after c's
InWindow(p, c) ==
  /\ StartsRead(p) /\ ~task'[p].force
  /\ c.status # "none" /\ ~c.force
  /\ ~c.invalidated
  /\ callNow'[p] - c.at < stateCacheTtlMs

\* C7 (as stated): two getProcessState() calls without forceRefresh within the TTL window,
\* with no invalidation in between, issue at most one dry-run query between them.
C7Original ==
  [][\A p, q \in Procs :
       InWindow(p, lastCallOf[q]) => ~(lastCallOf[q].queried /\ queried'[p])]_vars

\* C7 (amended): if moreover the earlier call had returned its snapshot when the later one
\* started, and no other call's refresh completed in between, the two issue at most one
\* dry-run query between them.
C7 ==
  [][\A p, q \in Procs :
       (InWindow(p, lastCallOf[q]) /\ lastCallOf[q].status = "ok" /\ ~lastCallOf[q].replaced)
         => ~(lastCallOf[q].queried /\ queried'[p])]_vars

\* a call served from the cache that started within the window of a call that had queried
C7Witness ==
  \E p \in Procs :
    /\ task[p].kind = "read" /\ ~task[p].force
    /\ lastCallOf[p].within # {}
    /\ pc[p] = "returned" /\ ~queried[p]

\* C8: a getProcessState() call that starts when the cache is empty, when the snapshot's
\* age is at least the TTL, or with forceRefresh, goes to the remote with a dry-run query
\* and returns nothing from the cache.
C8 ==
  [][\A p \in Procs :
       ( /\ StartsRead(p)
         /\ \/ stateCache = None
            \/ now' - stateCacheTimestamp >= stateCacheTtlMs
            \/ task'[p].force )
       => /\ pc'[p] = "dry_eval"
          /\ queried'[p]
          /\ outcome'[p].value = None]_vars

C8Witness ==
  \E p \in Procs :
    /\ task[p].kind = "read" /\ ~task[p].force
    /\ pc[p] = "dry_eval" /\ queried[p]
    /\ stateCache # None
    /\ callNow[p] - stateCacheTimestamp >= stateCacheTtlMs

\* p takes a step of its call in this step
StepOf(p) == pc'[p] # pc[p] \/ calls'[p] # calls[p]

\* C9: when the dry-run response cannot be parsed, getProcessState raises 'Invalid process
\* info format', and no step of a getProcessState call other than its successful return
\* touches the cached snapshot or its timestamp.
C9 ==
  [][\A p \in Procs :
       /\ ( /\ task[p].kind = "read" /\ pc[p] = "dry_reply"
            /\ StepOf(p)
            /\ inflight[p].ok /\ ~ParseOk(The(inflight[p].value)) )
          => /\ pc'[p] = "failed"
             /\ outcome'[p] = [error |-> InvalidFormat, value |-> None]
             /\ UNCHANGED cacheVars
       /\ (task'[p].kind = "read" /\ StepOf(p) /\ pc'[p] # "returned")
          => UNCHANGED cacheVars]_vars

C9Witness ==
  \E p \in Procs :
    /\ task[p].kind = "read" /\ pc[p] = "failed"
    /\ outcome[p].error = InvalidFormat
    /\ stateCache # None /\ stateCacheTimestamp > 0

\* C10 (as stated): the first state read started after an award message was sent
\* successfully gets a state that holds that award's record, not one from before the award.
\* (That the read also queries the remote is the lesser half of the claim: a read served
\* from a snapshot some other job installed after the invalidation already breaks it.)
C10Original ==
  \A p \in Procs :
    (task[p].kind = "award" /\ obtained[p] # None) =>
      \A m \in mustSee[p] : HasRecord(The(obtained[p]), m.wallet, m.id)

\* the cache is written in this step with what p's dry run answered and the time p's
\* getProcessState call started
Installs(p) ==
  /\ pc[p] = "dry_reply"
  /\ inflight[p].ok /\ ParseOk(The(inflight[p].value))
  /\ stateCache' = Some(ParseProcessInfo(The(inflight[p].value)))
  /\ stateCacheTimestamp' = callNow[p]

\* C11: in every state the cache is empty with timestamp 0 or holds a snapshot with a
\* timestamp; and every step that writes the cache either empties it (null, 0) or puts in
\* the whole state parsed from one job's dry-run response together with the start time of
\* that job's same getProcessState call.
C11 ==
  /\ [](stateCache = None <=> stateCacheTimestamp = 0)
  /\ [][\/ UNCHANGED cacheVars
        \/ stateCache' = None /\ stateCacheTimestamp' = 0
        \/ \E p \in Procs : Installs(p)]_vars

\* a refresh installed a snapshot holding an award while another job's refresh is in flight
C11Witness ==
  \E p, q \in Procs :
    /\ p # q
    /\ queried[p] /\ obtained[p] # None
    /\ stateCache = obtained[p] /\ stateCache # Some(EmptyState)
    /\ stateCacheTimestamp = callNow[p]
    /\ pc[q] = "dry_reply"

\* p is inside sendAosMessage
Sending(p) == pc[p] \in {"msg_submit", "msg_result", "msg_sleep"}

\* C15: when the sendAosMessage call awardAchievement made ends, either aoResult has just
\* resolved for a message the ledger accepted and awardAchievement returns, or
\* awardAchievement raises the error sendAosMessage raised (the one just caught, or after
\* the last sleep the one caught before it); it never returns normally otherwise.
C15 ==
  [][\A p \in Procs :
       (task[p].kind = "award" /\ Sending(p) /\ ~Sending(p)')
       => \/ /\ pc'[p] = "returned"
             /\ pc[p] = "msg_result" /\ faultsLeft' = faultsLeft /\ sent[p] >= 1
          \/ /\ pc'[p] = "failed"
             /\ outcome'[p].error # NoError
             /\ outcome'[p].error = IF pc[p] = "msg_sleep" THEN caught[p] ELSE caught'[p]
             /\ outcome'[p].value = None]_vars

\* the award message was accepted, its result fetch failed, and awardAchievement raised
C15Witness ==
  \E p \in Procs :
    /\ task[p].kind = "award" /\ sends[p] = 1 /\ sent[p] >= 1
    /\ pc[p] = "failed"
    /\ outcome[p].error \in RemoteErrors

\* C19: awardAchievement called with a name the mapping lacks has returned normally,
\* having neither read the cache or the clock, nor queried the ledger, nor sent a message.
C19 ==
  \A p \in Procs :
    (task[p].kind = "award" /\ task[p].name \notin DOMAIN achievementIdsByName)
    => /\ pc[p] = "returned"
       /\ outcome[p] = [error |-> NoError, value |-> None]
       /\ obtained[p] = None /\ ~queried[p] /\ callNow[p] = 0
       /\ sends[p] = 0 /\ sent[p] = 0

\* such a call was made while the cache was empty, so a read would have queried
C19Witness ==
  \E p \in Procs :
    /\ task[p].kind = "award" /\ task[p].name \notin DOMAIN achievementIdsByName
    /\ pc[p] = "returned"
    /\ stateCache = None

\* the achievement the claims name for each event type
SpecificOf ==
  [n \in {"arns-search", "image-search", "audio-search", "video-search"} |->
     CASE n = "arns-search" -> "Wuzzy ArNS Searcher"
       [] n = "image-search" -> "Wuzzy Image Searcher"
       [] n = "audio-search" -> "Wuzzy Audio Searcher"
       [] n = "video-search" -> "Wuzzy Video Searcher"]

\* the wallet of p's job passes validation and its name is one of the four event types
Awardable(p) ==
  /\ jobs[p].state # "none"
  /\ ValidateAndNormalize(jobs[p].walletAddress).valid
  /\ jobs[p].name \in DOMAIN SpecificOf

\* awardAchievement invocations of p's current attempt
Invoked(p) == calls[p] - jobs[p].callsBefore

\* C12 as stated: every finished attempt of a job with a valid wallet and one of the
\* four event types has invoked awardAchievement exactly twice.
C12Original ==
  \A p \in Procs :
    (Awardable(p) /\ jobs[p].settled \in {"resolved", "rejected"}) => Invoked(p) = 2

\* C12: in an attempt of a job with a valid wallet and one of the four event types, the
\* first awardAchievement invocation is for the generic searcher achievement and the
\* second for the achievement of the event type, both for the normalized wallet; the
\* second starts in a step where the first has returned without error; there is no
\* third; and an attempt whose process() returned has made both.
C12 ==
  /\ [](\A p \in Procs :
          Awardable(p) =>
            /\ Invoked(p) <= 2
            /\ jobs[p].settled = "resolved" => Invoked(p) = 2)
  /\ [][\A p \in Procs :
          (Awardable(p) /\ calls'[p] # calls[p]) =>
            /\ calls'[p] = calls[p] + 1
            /\ task'[p].kind = "award"
            /\ task'[p].wallet = ValidateAndNormalize(jobs[p].walletAddress).normalized
            /\ \/ /\ calls[p] = jobs'[p].callsBefore
                  /\ task'[p].name = "Wuzzy Searcher"
               \/ /\ calls[p] = jobs'[p].callsBefore + 1
                  /\ task'[p].name = SpecificOf[jobs[p].name]
                  /\ task[p].name = "Wuzzy Searcher"
                  /\ pc[p] = "returned" /\ outcome[p].error = NoError]_vars

\* an audio-search job for a lower-case address completed, and the ledger holds both
\* awards for the checksummed address
C12Witness ==
  \E p \in Procs :
    /\ jobs[p].state = "completed"
    /\ jobs[p].name = "audio-search" /\ jobs[p].walletAddress = LowerAb
    /\ Invoked(p) = 2
    /\ \E m1, m2 \in messages :
         /\ m1.wallet = ChecksumAb /\ m1.id = "a1"
         /\ m2.wallet = ChecksumAb /\ m2.id = "a4"

\* the wallet address of p's job fails validation
Rejected(p) ==
  /\ jobs[p].state # "none"
  /\ ~ValidateAndNormalize(jobs[p].walletAddress).valid

\* C13: a job whose wallet address fails validation never completes; each of its
\* attempts ends, in the step that starts it and without touching the service, with an
\* error whose message contains 'Wallet validation failed', which becomes the job's
\* failed reason; and the job never invokes awardAchievement.
C13 ==
  /\ [](\A p \in Procs :
          Rejected(p) =>
            /\ calls[p] = 0 /\ pc[p] = "idle" /\ task[p] = NoTask
            /\ jobs[p].state # "completed" /\ jobs[p].settled \in {"none", "rejected"}
            /\ jobs[p].settled = "rejected" => Includes(jobs[p].error, WalletValidationFailed)
            /\ jobs[p].attemptsMade > 0
                 => Includes(jobs[p].failedReason, WalletValidationFailed))
  /\ [][\A p \in Procs :
          (Rejected(p) /\ jobs[p].state = "waiting" /\ jobs'[p].state # "waiting")
          => /\ jobs'[p].state = "active" /\ jobs'[p].settled = "rejected"
             /\ UNCHANGED serviceVars]_vars

\* such a job in the failed set, after another job's awards reached the ledger
C13Witness ==
  \E p \in Procs :
    /\ Rejected(p)
    /\ jobs[p].state = "failed"
    /\ Includes(jobs[p].failedReason, WalletValidationFailed)
    /\ messages # {}

\* C14: an attempt's process() returns only when the wallet is valid, the job name is
\* one of the four event types and the last awardAchievement returned without error; an
\* error awardAchievement raised is the error process() throws, an unknown job name
\* makes it throw 'Unknown job type', and the queue engine records an attempt whose
\* process() threw as failed (to be retried, or in the failed set) with that error as
\* the failed reason, never as completed.
C14 ==
  /\ [](\A p \in Procs :
          (jobs[p].state \in {"active", "completed"} /\ jobs[p].settled = "resolved")
          => /\ ~Rejected(p) /\ jobs[p].name \in DOMAIN SpecificOf
             /\ pc[p] = "returned" /\ outcome[p].error = NoError)
  /\ [][\A p \in Procs :
          /\ (InHandler(p) /\ pc[p] = "failed" /\ jobs'[p] # jobs[p])
             => /\ jobs'[p].state = "active" /\ jobs'[p].settled = "rejected"
                /\ jobs'[p].error = outcome[p].error /\ jobs'[p].error # NoError
          /\ (jobs[p].state = "waiting" /\ jobs'[p].state # "waiting"
              /\ ~Rejected(p) /\ jobs[p].name \notin DOMAIN SpecificOf)
             => /\ jobs'[p].settled = "rejected"
                /\ Includes(jobs'[p].error, UnknownJobType)
          /\ (jobs[p].state = "active" /\ jobs[p].settled = "rejected"
              /\ jobs'[p] # jobs[p])
             => /\ jobs'[p].state \in {"waiting", "failed"}
                /\ jobs'[p].attemptsMade = jobs[p].attemptsMade + 1
                /\ jobs'[p].failedReason = jobs[p].error
          /\ (jobs[p].state # "completed" /\ jobs'[p].state = "completed")
             => jobs[p].settled = "resolved"]_vars

\* the second awardAchievement of an attempt raised a ledger error after the first had
\* returned, and the engine recorded the attempt as failed with that error
C14Witness ==
  \E p \in Procs :
    /\ Awardable(p)
    /\ jobs[p].state = "waiting" /\ jobs[p].attemptsMade = 1
    /\ jobs[p].failedReason \in RemoteErrors
    /\ Len(jobs[p].awarded) = 2

\* the job is in the completed set or in the failed set
Ended(p) == jobs[p].state \in {"completed", "failed"}

Enabled(info, address) ==
  /\ info.acl # None
  /\ The(info.acl).roles # None
  /\ "Award-Cheese-Mint" \in DOMAIN The(The(info.acl).roles)
  /\ address \in DOMAIN The(The(info.acl).roles)["Award-Cheese-Mint"]
  /\ The(The(info.acl).roles)["Award-Cheese-Mint"][address] = TRUE

\* the step in which startup resumes with the ledger state its fetch returned
Verifies == boot = "verifying" /\ pc[Starter] = "returned" /\ boot' # boot

\* C16: when startup resumes with the fetched ledger state and the service's address is
\* absent from, or mapped to false in, the 'Award-Cheese-Mint' role of that state's ACL
\* (or the ACL or the role is missing), onModuleInit raises one of the ACL errors and
\* the mapping is left untouched; a service that is ready has its address present and
\* enabled there.
C16 ==
  /\ [](boot = "ready" => Enabled(ledger, thisWalletAddress))
  /\ [][Verifies =>
          LET info == The(outcome[Starter].value)
          IN /\ ~Enabled(info, thisWalletAddress)
                => /\ boot' = "exited"
                   /\ startupError' \in {NoAclFound, NotConfigured, NoPermission}
                   /\ UNCHANGED achievementIdsByName
             /\ Enabled(info, thisWalletAddress)
                => startupError' \notin {NoAclFound, NotConfigured, NoPermission}]_vars

\* startup failed against a ledger whose role maps the service's address to false
C16Witness ==
  /\ boot = "exited" /\ startupError = NoPermission
  /\ ledger.acl = Acl([a \in {"svc", "other"} |-> a = "other"])
  /\ thisWalletAddress = "svc"

\* the five required achievement names
RequiredNames ==
  {"Wuzzy Searcher", "Wuzzy Video Searcher", "Wuzzy Image Searcher", "Wuzzy ArNS Searcher",
   "Wuzzy Audio Searcher"}

\* the names an achievement of the catalog of info bears
CatalogNames(info) ==
  IF info.cheese_mints_by_id = None THEN {}
  ELSE {The(info.cheese_mints_by_id)[id].name : id \in DOMAIN The(info.cheese_mints_by_id)}

\* the required names that message names
NamedIn(message) == {message[i] : i \in 1..Len(message)} \cap RequiredNames

\* C17 as stated: whenever startup resumes with a fetched ledger state whose catalog
\* lacks a required name, it fails with an error naming exactly the missing names.
C17Original ==
  [][Verifies =>
       LET missing == RequiredNames \ CatalogNames(The(outcome[Starter].value))
       IN missing # {}
          => /\ boot' = "exited"
             /\ NamedIn(startupError') = missing]_vars

\* C17: a ready service maps each of the five required names to the id of a catalog
\* entry bearing that name; and when startup resumes with a fetched ledger state that
\* passes the ACL check and has a catalog lacking a required name, it fails with the
\* 'Required achievements not found' error naming exactly the missing names.
C17 ==
  /\ [](boot = "ready" =>
          \A n \in RequiredNames :
            /\ n \in DOMAIN achievementIdsByName
            /\ The(ledger.cheese_mints_by_id)[achievementIdsByName[n]].name = n)
  /\ [][Verifies =>
          LET info == The(outcome[Starter].value)
              missing == RequiredNames \ CatalogNames(info)
          IN (Enabled(info, thisWalletAddress) /\ info.cheese_mints_by_id # None
              /\ missing # {})
             => /\ boot' = "exited"
                /\ Includes(startupError', RequiredNotFound)
                /\ NamedIn(startupError') = missing]_vars

\* startup failed naming the two achievements the catalog lacked
C17Witness ==
  /\ boot = "exited"
  /\ Includes(startupError, RequiredNotFound)
  /\ NamedIn(startupError) = {"Wuzzy Video Searcher", "Wuzzy Audio Searcher"}
  /\ DOMAIN achievementIdsByName =
       {"Wuzzy Searcher", "Wuzzy ArNS Searcher", "Wuzzy Image Searcher"}

\* the startup sequence has completed successfully: key loaded and address derived,
\* state fetched, ACL verified, mapping built
StartupSucceeded ==
  /\ boot = "ready" /\ startupError = NoError
  /\ config = "ok" /\ thisWalletAddress # ""
  /\ Enabled(ledger, thisWalletAddress)
  /\ RequiredNames \subseteq DOMAIN achievementIdsByName

\* C18: a step in which sendAosMessage is called, or in which the ledger accepts an
\* award message, is taken only after the startup sequence has completed successfully,
\* although the worker may process jobs while startup is under way; a startup error
\* ends the process, after which no step is taken: no job is processed, no message sent.
C18 ==
  /\ [][((\E p \in Procs : sends'[p] > sends[p]) \/ messages' # messages
         \/ messageCount' # messageCount)
        => StartupSucceeded]_vars
  /\ [](startupError # NoError => boot = "exited")
  /\ [](boot = "exited" => startupError # NoError /\ messages = {} /\ messageCount = 0)
  /\ [][boot # "exited"]_vars

\* the worker completed a job while startup was still fetching the ledger state, and
\* no award message has been sent
C18Witness ==
  /\ boot = "verifying" /\ pc[Starter] = "dry_reply"
  /\ \E p \in Procs : jobs[p].state = "completed"
  /\ messages = {} /\ \A p \in Procs : sends[p] = 0

\* a step of an attempt of process(job) in slot p: the attempt starts, or resumes after
\* an awaited awardAchievement call, and the queue engine has not yet taken the job back
ProcessStep(p) ==
  /\ jobs[p].state \in {"waiting", "active"}
  /\ jobs'[p] # jobs[p] /\ jobs'[p].state = "active"

\* what such a step does, written from the job's name, its data and the results of the
\* awardAchievement calls of the attempt alone: which call it makes, or how it ends
StepOutcome(p) ==
  LET job == jobs[p]
      after == jobs'[p]
      v == ValidateAndNormalize(job.walletAddress)
      called == calls'[p] > calls[p]
      call(name) == /\ called /\ calls'[p] = calls[p] + 1
                    /\ task'[p].kind = "award" /\ task'[p].name = name
                    /\ task'[p].wallet = v.normalized
                    /\ after.settled = "pending"
  IN IF job.state = "waiting"
     THEN IF ~v.valid
          THEN /\ ~called /\ after.settled = "rejected"
               /\ after.error = WalletValidationFailed \o <<":", " ">> \o v.error
          ELSE IF job.name \notin DOMAIN SpecificOf
          THEN /\ ~called /\ after.settled = "rejected"
               /\ after.error = UnknownJobType \o <<job.name>>
          ELSE call("Wuzzy Searcher")
     ELSE IF pc[p] = "failed"
          THEN ~called /\ after.settled = "rejected" /\ after.error = outcome[p].error
          ELSE IF Invoked(p) = 1
          THEN call(SpecificOf[job.name])
          ELSE /\ ~called /\ after.settled = "resolved"
               /\ after.returnvalue # None

\* C21: what an attempt of process(job) does (the awardAchievement call it makes, with
\* which name and wallet, and whether it returns or raises, with which error) is decided
\* by the job's name, its wallet address and the results of the attempt's own calls:
\* jobs that differ in attemptsMade or opts.attempts take the same steps.
C21 ==
  [][\A p \in Procs : ProcessStep(p) => StepOutcome(p)]_vars

\* the second attempt of a job, the first having failed, has made the two calls and
\* returned, as a first attempt does
C21Witness ==
  /\ jobs[Starter].state = "active" /\ jobs[Starter].settled = "resolved"
  /\ jobs[Starter].attemptsMade = 1 /\ jobs[Starter].attempts = JobAttempts
  /\ Invoked(Starter) = 2

\* C22: once process() has returned, the job's return value is a record with success
\* true, eventType the job's event type, wallet the validator's normalized form of the
\* job's wallet address, walletType the chain type the validator reported, and metadata
\* the job's metadata as it was added.
C22 ==
  \A p \in Procs :
    (jobs[p].state # "none" /\ jobs[p].settled = "resolved") =>
      /\ jobs[p].returnvalue # None
      /\ LET result == The(jobs[p].returnvalue)
             v == ValidateAndNormalize(jobs[p].walletAddress)
         IN /\ result.success = TRUE
            /\ result.eventType = jobs[p].name
            /\ v.valid /\ result.wallet = v.normalized /\ result.walletType = v.type
            /\ result.metadata = jobs[p].metadata
            /\ result.processedAt \in 0..MaxTime

\* a video-search job with metadata for an Arweave address has completed
C22Witness ==
  /\ jobs[Starter].state = "completed" /\ jobs[Starter].name = "video-search"
  /\ jobs[Starter].walletAddress = ArweaveSample /\ jobs[Starter].metadata = Some("query")
  /\ The(jobs[Starter].returnvalue).walletType = "arweave"
  /\ The(jobs[Starter].returnvalue).metadata = Some("query")

\* C23: every awardAchievement call of a job carries the validator's normalized form of
\* the job's wallet address, and so does every award message the ledger accepted; a
\* lower-case EVM address is awarded under its checksummed form, never as it was given.
C23 ==
  /\ [][\A p \in Procs :
          (jobs'[p].state = "active" /\ calls'[p] > calls[p]) =>
            /\ task'[p].kind = "award"
            /\ task'[p].wallet = ValidateAndNormalize(jobs[p].walletAddress).normalized
            /\ jobs[p].walletAddress = LowerAb => task'[p].wallet = ChecksumAb]_vars
  /\ [](\A m \in messages :
          /\ m.wallet = ValidateAndNormalize(jobs[Starter].walletAddress).normalized
          /\ jobs[Starter].walletAddress = LowerAb => m.wallet = ChecksumAb)

\* an image-search job for the lower-case address completed; the ledger holds two awards,
\* both for the checksummed address
C23Witness ==
  /\ jobs[Starter].state = "completed" /\ jobs[Starter].name = "image-search"
  /\ jobs[Starter].walletAddress = LowerAb
  /\ Cardinality(messages) = 2
  /\ \A m \in messages : m.wallet = ChecksumAb /\ m.wallet # jobs[Starter].walletAddress

\* the checksummed form of the address whose digits raw spells, in whatever case
CanonicalOf(raw) == EvmPrefix \o ToChecksum(LowerCased(SubSeq(raw, 3, Len(raw))))

\* raw spells an EVM address and differs from its checksummed form in the case of at
\* least one digit
MisCased(raw) == IsEvmShaped(raw) /\ raw # CanonicalOf(raw)

\* raw is in one letter case throughout
OneCase(raw) ==
  LET body == SubSeq(raw, 3, Len(raw)) IN body = LowerCased(body) \/ body = UpperCased(body)

\* C24 as stated: for a job whose wallet address differs from the checksummed form only
\* in the case of at least one hex digit, validation fails and no award is made.
C24Original ==
  \A p \in Procs :
    (jobs[p].state # "none" /\ MisCased(jobs[p].walletAddress)) =>
      /\ jobs[p].settled \in {"none", "rejected"}
      /\ calls[p] = 0 /\ messages = {}

\* C24: an EVM address given in one letter case, or in its checksummed form, passes
\* validation and is processed under the one checksummed form of its digits; an EVM
\* address in mixed case that is not its checksummed form is rejected, every attempt
\* failing with the wallet validation error, and nothing is awarded for it.
C24 ==
  \A p \in Procs :
    (jobs[p].state # "none" /\ IsEvmShaped(jobs[p].walletAddress)) =>
      LET raw == jobs[p].walletAddress
      IN IF MisCased(raw) /\ ~OneCase(raw)
         THEN /\ jobs[p].settled \in {"none", "rejected"}
              /\ jobs[p].settled = "rejected"
                   => Includes(jobs[p].error, WalletValidationFailed)
              /\ jobs[p].state # "completed"
              /\ calls[p] = 0 /\ messages = {}
         ELSE /\ jobs[p].settled = "rejected"
                   => ~Includes(jobs[p].error, WalletValidationFailed)
              /\ jobs[p].settled \in {"pending", "resolved"}
                   => /\ jobs[p].wallet = CanonicalOf(raw)
                      /\ jobs[p].walletType = "evm"
              /\ \A m \in messages : m.wallet = CanonicalOf(raw)

\* the mixed-case address 0xaB, whose checksummed form is 0xAb, was rejected on the last
\* attempt of its job and nothing was awarded
C24Witness ==
  /\ jobs[Starter].walletAddress = <<"0", "x", "a", "B">>
  /\ jobs[Starter].name = "image-search"
  /\ jobs[Starter].state = "failed" /\ jobs[Starter].attemptsMade = JobAttempts
  /\ Includes(jobs[Starter].failedReason, WalletValidationFailed)
  /\ calls[Starter] = 0 /\ messages = {}

\* a Ledger Client call of p is under way
InClientCall(p) ==
  /\ task[p].kind \in ClientKinds
  /\ pc[p] \in {"dry_eval", "dry_reply", "dry_sleep", "msg_submit", "msg_result", "msg_sleep"}

\* C25: every Ledger Client call ends: as long as each remote round trip settles and each
\* backoff timer fires, a call under way eventually returns a result or raises, and at
\* no point has it started more attempts than its retry count.
C25 ==
  /\ [](\A p \in Procs :
          task[p].kind \in ClientKinds =>
            /\ attempts[p] <= retries[p] /\ Len(trace[p]) <= retries[p]
            /\ InClientCall(p) => attempts[p] < retries[p])
  /\ \A p \in Procs : InClientCall(p) ~> (pc[p] \in {"returned", "failed"})

\* a sendAosMessage call with the default retry count raised after three failed attempts
C25Witness ==
  /\ task["j1"].kind = "message" /\ retries["j1"] = DefaultRetries
  /\ pc["j1"] = "failed" /\ attempts["j1"] = 3 /\ Len(sleeps["j1"]) = 3

\* the first awardAchievement call of p's attempt, for the generic achievement, has raised
FirstRaised(p) ==
  /\ jobs[p].state = "active" /\ Invoked(p) = 1
  /\ task[p].kind = "award" /\ task[p].name = "Wuzzy Searcher"
  /\ pc[p] = "failed"

\* C26: once the first awardAchievement call of an attempt has raised, the attempt makes
\* no further call: its next step is process() raising the call's error, and the step
\* after that the queue engine recording the failed attempt; the type-specific
\* achievement is not requested in that attempt.
C26 ==
  /\ [](\A p \in Procs :
          FirstRaised(p) => /\ jobs[p].settled \in {"pending", "rejected"}
                            /\ jobs[p].settled = "rejected" => jobs[p].error = outcome[p].error)
  /\ [][\A p \in Procs :
          (FirstRaised(p) /\ (jobs'[p] # jobs[p] \/ calls'[p] # calls[p])) =>
            /\ calls'[p] = calls[p] /\ task'[p] = task[p]
            /\ IF jobs[p].settled = "pending"
               THEN jobs'[p].state = "active" /\ jobs'[p].settled = "rejected"
               ELSE /\ jobs'[p].state \in {"waiting", "failed"}
                    /\ jobs'[p].attemptsMade = jobs[p].attemptsMade + 1
                    /\ jobs'[p].failedReason = outcome[p].error]_vars

\* an audio-search attempt failed after its first call raised: one call made, for the
\* generic achievement, and nothing awarded
C26Witness ==
  /\ FirstRaised(Starter) /\ jobs[Starter].settled = "rejected"
  /\ jobs[Starter].name = "audio-search"
  /\ jobs[Starter].awarded = <<"Wuzzy Searcher">>
  /\ messages = {}

\* C27: a job whose name is none of the four event types never invokes awardAchievement
\* and never completes; each of its attempts fails with 'Unknown job type: <name>' when
\* its wallet address is valid, and with the wallet validation error, not the unknown
\* job type error, when it is not.
C27 ==
  \A p \in Procs :
    (jobs[p].state # "none" /\ jobs[p].name \notin DOMAIN SpecificOf) =>
      /\ calls[p] = 0 /\ messages = {}
      /\ jobs[p].state # "completed" /\ jobs[p].settled \in {"none", "rejected"}
      /\ jobs[p].settled = "rejected" =>
           IF ValidateAndNormalize(jobs[p].walletAddress).valid
           THEN jobs[p].error = <<"U", "n", "k", "n", "o", "w", "n", " ", "j", "o", "b", " ",
                                  "t", "y", "p", "e", ":", " ">> \o <<jobs[p].name>>
           ELSE /\ Includes(jobs[p].error, WalletValidationFailed)
                /\ ~Includes(jobs[p].error, UnknownJobType)

\* a text-search job with an invalid wallet address failed its only attempt with the
\* wallet validation error
C27Witness ==
  /\ jobs[Starter].name = "text-search" /\ jobs[Starter].walletAddress = InvalidWalletAddress
  /\ jobs[Starter].attempts = 1 /\ jobs[Starter].state = "failed"
  /\ Includes(jobs[Starter].failedReason, WalletValidationFailed)
  /\ ~Includes(jobs[Starter].failedReason, UnknownJobType)
  /\ calls[Starter] = 0

\* C28: in a Ledger Client call whose attempts all fail with a server error, the k-th
\* sleep (k = 0, 1, 2, ...) lasts 2^k * 2000 ms and one sleep follows every failed
\* attempt, the last included: the call raises out of its last sleep, and with three
\* attempts it has then slept 2000, 4000 and 8000 ms and raises the last attempt's error.
C28 ==
  /\ [](\A p \in Procs :
          (task[p].kind \in ClientKinds
           /\ \A k \in 1..Len(trace[p]) : ServerError(trace[p][k])) =>
            /\ \A k \in 1..Len(sleeps[p]) : sleeps[p][k] = (2 ^ (k - 1)) * 2000
            /\ Len(sleeps[p]) = IF pc[p] \in {"dry_sleep", "msg_sleep"}
                                THEN Len(trace[p]) - 1 ELSE Len(trace[p])
            /\ (AllFailed(p) /\ pc[p] = "failed" /\ retries[p] = 3) =>
                 /\ sleeps[p] = <<2000, 4000, 8000>>
                 /\ outcome[p].error = trace[p][3].error)
  /\ [][\A p \in Procs :
          (AllFailed(p)' /\ pc'[p] = "failed" /\ pc[p] # "failed") =>
            pc[p] \in {"dry_sleep", "msg_sleep"}]_vars

\* a sendAosDryRun call with three attempts, all failed with a server error, has raised
\* after its third sleep
C28Witness ==
  /\ AllFailed("j1") /\ task["j1"].kind = "dryrun" /\ retries["j1"] = 3
  /\ pc["j1"] = "failed" /\ sleeps["j1"] = <<2000, 4000, 8000>>

\* attempts of p's sendAosMessage call started so far: those that have ended, and the
\* one under way
AttemptsStarted(p) ==
  Len(trace[p]) + IF pc[p] \in {"msg_submit", "msg_result"} THEN 1 ELSE 0

\* C29: every attempt of sendAosMessage begins by submitting the message: a retry resumes
\* at the submission, never at the result fetch; a result is fetched only for a message
\* submitted in the same attempt; every accepted submission is a new message on the
\* ledger, whatever the call has submitted before; so the call has had no more
\* submissions accepted than it started attempts, and one accepted in each attempt that
\* got as far as the result fetch.
C29 ==
  /\ [](\A p \in Procs :
          task[p].kind = "message" =>
            /\ sent[p] <= AttemptsStarted(p)
            /\ pc[p] = "msg_result" => sent[p] >= 1 /\ messageId[p] = messageCount
            /\ (pc[p] = "returned" /\ retries[p] > 0) => sent[p] >= 1)
  /\ [][\A p \in Procs :
          task[p].kind = "message" =>
            /\ (pc[p] = "msg_sleep" /\ pc'[p] \notin {"msg_sleep", "failed"})
                 => pc'[p] = "msg_submit" /\ attempts'[p] = attempts[p] + 1
            /\ (pc'[p] = "msg_result" /\ pc[p] # "msg_result")
                 => /\ pc[p] = "msg_submit"
                    /\ sent'[p] = sent[p] + 1
                    /\ messageCount' = messageCount + 1]_vars

\* the first submission was accepted and its result fetch failed with a server error; the
\* second attempt submitted the message again and returned: two messages on the ledger
C29Witness ==
  /\ task["j1"].kind = "message" /\ pc["j1"] = "returned"
  /\ Len(trace["j1"]) = 2 /\ ServerError(trace["j1"][1]) /\ trace["j1"][2].ok
  /\ sent["j1"] = 2 /\ messageCount = 2

\* the dry run of p's getProcessState call completes in this step with a state that parses
QueryCompletes(p) ==
  /\ pc[p] = "dry_reply" /\ pc'[p] # "dry_reply"
  /\ task[p].kind \in {"read", "award"}
  /\ inflight[p].ok /\ ParseOk(The(inflight[p].value))

\* C30: when the query of a getProcessState call completes, the call puts into the cache
\* the snapshot that query returned, stamped with the time the call started, whatever the
\* cache holds by then and whether or not it was invalidated while the query was in
\* flight.
C30 ==
  [][\A p \in Procs :
       QueryCompletes(p) =>
         /\ stateCache' = Some(ParseProcessInfo(The(inflight[p].value)))
         /\ stateCacheTimestamp' = callNow[p]
         /\ obtained'[p] \in {None, stateCache'}]_vars

\* q's award was accepted and q invalidated the cache and returned; p's refresh, started
\* before, completed afterwards: the cache holds a snapshot without q's award
C30Witness ==
  \E p, q \in Procs :
    /\ p # q
    /\ task[q].kind = "award" /\ pc[q] = "returned" /\ sent[q] = 1
    /\ [wallet |-> task[q].wallet, id |-> task[q].id] \in messages
    /\ task[p].kind = "award" /\ obtained[p] # None /\ queried[p]
    /\ stateCache = obtained[p] /\ stateCacheTimestamp = callNow[p]
    /\ ~HasRecord(The(stateCache), task[q].wallet, task[q].id)
    /\ pc[p] = "msg_submit"

\* job slot p takes this step: it starts a call or moves on inside one
SlotStep(p) == pc'[p] # pc[p] \/ calls'[p] # calls[p]

\* C31: a step awardAchievement takes inside sendAosMessage leaves the cached snapshot
\* and its timestamp as they are unless it is the step in which the send succeeds and
\* awardAchievement returns; in particular the step in which the send path raises does,
\* also after the ledger accepted the message. A call that returns without sending
\* (name not in the mapping, or award already held) never empties the cache: it leaves
\* it alone or puts in the snapshot it fetched. The cache is emptied only in the step
\* in which a send succeeds.
C31 ==
  [][/\ \A p \in Procs :
          (task'[p].kind = "award" /\ SlotStep(p)) =>
            /\ (Sending(p) /\ pc'[p] # "returned") => UNCHANGED cacheVars
            /\ (Sending(p) /\ pc'[p] = "returned") =>
                 stateCache' = None /\ stateCacheTimestamp' = 0
            /\ (~Sending(p) /\ pc'[p] = "returned") =>
                 /\ sends'[p] = 0
                 /\ UNCHANGED cacheVars \/ Installs(p)
                 /\ stateCache # None => stateCache' # None
     /\ (stateCache # None /\ stateCache' = None) =>
          \E p \in Procs : /\ task[p].kind = "award" /\ pc[p] = "msg_result"
                            /\ pc'[p] = "returned" /\ sent[p] >= 1]_vars

\* the ledger accepted the award, the result fetch failed and awardAchievement raised:
\* the cache still holds the snapshot the call fetched, without the award, and its stamp
C31Witness ==
  \E p \in Procs :
    /\ task[p].kind = "award" /\ pc[p] = "failed" /\ sent[p] = 1
    /\ [wallet |-> task[p].wallet, id |-> task[p].id] \in messages
    /\ queried[p] /\ obtained[p] # None
    /\ stateCache = obtained[p] /\ stateCacheTimestamp = callNow[p]
    /\ stateCacheTimestamp > 0
    /\ ~HasRecord(The(stateCache), task[p].wallet, task[p].id)

\* p's job is in a later attempt, an earlier attempt of it having sent the generic
\* achievement successfully, and the call under way or just ended is the attempt's first
RetryAfterGenericSent(p) ==
  /\ jobs[p].state = "active" /\ jobs[p].attemptsMade >= 1
  /\ "Wuzzy Searcher" \in jobs[p].sentOk
  /\ Invoked(p) = 1
  /\ Len(jobs[p].awarded) = 1

\* C32: jobs being processed one at a time and the ledger recording every award it
\* accepts, a retry of a job of which an earlier attempt sent the generic achievement
\* successfully and then failed awards the generic achievement without calling
\* sendAosMessage: the state it obtains holds the record, and no message goes out.
C32 ==
  \A p \in Procs :
    RetryAfterGenericSent(p) =>
      /\ task[p].kind = "award" /\ task[p].name = "Wuzzy Searcher"
      /\ task[p].wallet = jobs[p].wallet
      /\ sends[p] = 0 /\ sent[p] = 0 /\ ~Sending(p)
      /\ obtained[p] # None => HasRecord(The(obtained[p]), task[p].wallet, task[p].id)
      /\ [wallet |-> task[p].wallet, id |-> task[p].id] \in messages

\* the first attempt of an arns-search job sent the generic achievement and failed on the
\* type-specific one; the second attempt found the generic one on the ledger, sent the
\* type-specific one and completed: one message each
C32Witness ==
  \E p \in Procs :
    /\ jobs[p].state = "completed" /\ jobs[p].name = "arns-search"
    /\ jobs[p].attemptsMade = 2 /\ jobs[p].attempts = JobAttempts
    /\ jobs[p].sentOk = {"Wuzzy Searcher", "Wuzzy ArNS Searcher"}
    /\ prev[p].kind = "award" /\ prev[p].name = "Wuzzy Searcher" /\ prev[p].sent = 0
    /\ \A q \in Procs \ {p} : jobs[q].walletAddress = InvalidWalletAddress
    /\ messageCount = 2

====
